---- MODULE Spec2Model ----
(***************************************************************************)
(* A state-machine model of the Q&A web service: the Solution 1 HTTP API   *)
(* (routes, ResponseService, FileService, ErrorHandler, MemoryService),    *)
(* the Solution 2 HTTP API (routes, RAGService, MemoryService) and the     *)
(* agent's conversation store (saveConversation).                          *)
(*                                                                         *)
(* Node runs one handler at a time up to its next await, so every action   *)
(* is one such run: the synchronous part of a handler, or the continuation *)
(* that a remote call's completion resumes.                                *)
(*                                                                         *)
(* Conventions: a JS string is a sequence of one-character strings; an     *)
(* absent (undefined / null / empty) string is <<>>, an absent number is 0 *)
(* (all of them falsy in JS, as the code tests them).  Time is in             *)
(* milliseconds.  Money is in units of 10^-8 dollars.                      *)
(***************************************************************************)
EXTENDS Integers, Sequences, FiniteSets, TLC

(* ------------------------------ bounds --------------------------------- *)

\* POST requests started on each API over a run
MaxQueries == 2
\* clock steps over a run
MaxTicks == 1
\* messages saved to a thread of the agent's memory beyond its history limit
ExtraAgentSaves == 2
\* direct calls of a save method of Solution 1's and of Solution 2's
\* memory service on a thread
MaxDirectSaves == 2
\* waitForFileProcessing is called with at most this many attempts
MaxAttemptsTried == 3
\* the largest retry count calculateBackoff is called with
MaxRetryCount == 8

(* ------------------------- program constants --------------------------- *)

MaxQueryLength == 1000
HistoryLimit == 20
MsPerHour == 3600000
\* cleanupOldConversations(maxAgeHours = 24)
DefaultMaxAgeHours == 24
\* $0.15 and $0.60 per 10^6 tokens, in 10^-8 dollars per token
InputPrice == 15
OutputPrice == 60

(* ------------------------------ strings -------------------------------- *)

\* the text of a string literal of the source, as a sequence of characters
DEFAULT_THREAD == <<"d", "e", "f", "a", "u", "l", "t">>

\* \s of the regular expressions and of String.prototype.trim
IsSpace(c) == c \in {" ", "\t", "\n"}

\* [a-zA-Z0-9-_] of validateThreadId
IsIdChar(c) ==
    c \in {"a", "b", "d", "e", "f", "l", "q", "t", "u", "x", "T", "0", "1", "2", "-", "_"}

RECURSIVE trimStart(_)
trimStart(s) ==
    IF s = <<>> THEN <<>>
    ELSE IF IsSpace(Head(s)) THEN trimStart(Tail(s)) ELSE s

RECURSIVE trimEnd(_)
trimEnd(s) ==
    IF s = <<>> THEN <<>>
    ELSE IF IsSpace(s[Len(s)]) THEN trimEnd(SubSeq(s, 1, Len(s) - 1)) ELSE s

\* String.prototype.trim
trim(s) == trimEnd(trimStart(s))

\* s.replace(/\s+/g, ' '): every maximal run of whitespace becomes one space
RECURSIVE collapseSpaces(_)
collapseSpaces(s) ==
    IF s = <<>> THEN <<>>
    ELSE IF IsSpace(Head(s))
         THEN <<" ">> \o collapseSpaces(trimStart(s))
         ELSE <<Head(s)>> \o collapseSpaces(Tail(s))

(* ----------------------------- Validators ------------------------------ *)

\* A value of a JSON request body: a string, or something that is no string
\* (a number, an object, or the field missing).
StringValue(s) == [isString |-> TRUE, text |-> s]
NotAString == [isString |-> FALSE, text |-> <<>>]

Valid == [valid |-> TRUE, error |-> ""]
Invalid(msg) == [valid |-> FALSE, error |-> msg]

validateQuery(query) ==
    IF ~query.isString \/ query.text = <<>>
    THEN Invalid("Query must be a non-empty string")
    ELSE IF Len(trim(query.text)) = 0
    THEN Invalid("Query cannot be empty")
    ELSE IF Len(trim(query.text)) > MaxQueryLength
    THEN Invalid("Query too long (max 1000 characters)")
    ELSE Valid

validateThreadId(threadId) ==
    IF threadId = <<>>
    THEN Invalid("Thread ID must be a non-empty string")
    ELSE IF Len(trim(threadId)) = 0
    THEN Invalid("Thread ID cannot be empty")
    ELSE IF \E i \in 1..Len(trim(threadId)) : ~IsIdChar(trim(threadId)[i])
    THEN Invalid("Thread ID can only contain letters, numbers, hyphens, and underscores")
    ELSE Valid

\* a sanitizeQuery that hands the text on as it is
sanitizeQuery_raw(text) == text

sanitizeQuery(text) == collapseSpaces(trim(text))

(* ------------------------ ErrorHandler (Solution 1) -------------------- *)

\* What a catch block can receive: an Error (of the OpenAI client, of Node,
\* or `new Error(message)`), seen through the four properties the handler
\* reads.  status 0 and the empty strings stand for a missing property.
ErrorValue(status, code, name, message) ==
    [status |-> status, code |-> code, name |-> name, message |-> message]

getErrorType(error) ==
    IF error.status # 0
    THEN CASE error.status = 401 -> "AUTHENTICATION_ERROR"
           [] error.status = 429 -> "RATE_LIMIT_ERROR"
           [] error.status = 404 -> "NOT_FOUND_ERROR"
           [] error.status = 400 -> "BAD_REQUEST_ERROR"
           [] OTHER -> "API_ERROR"
    ELSE IF error.code = "LIMIT_FILE_SIZE" THEN "FILE_SIZE_ERROR"
    ELSE IF error.code = "ENOENT" THEN "FILE_NOT_FOUND_ERROR"
    ELSE IF error.name = "ValidationError" THEN "VALIDATION_ERROR"
    ELSE IF error.code = "ECONNREFUSED" THEN "CONNECTION_ERROR"
    ELSE IF error.code = "ETIMEDOUT" THEN "TIMEOUT_ERROR"
    ELSE "UNKNOWN_ERROR"

getErrorMessage(error) ==
    IF error.status = 401
    THEN "Invalid API key. Please check your OpenAI API key configuration."
    ELSE IF error.status = 429
    THEN "Rate limit exceeded. Please try again later."
    ELSE IF error.status = 404
    THEN "Resource not found. The requested resource does not exist."
    ELSE IF error.status = 400
    THEN "Bad request. Please check your input and try again."
    ELSE IF error.code = "LIMIT_FILE_SIZE"
    THEN "File size exceeds the maximum allowed limit."
    ELSE IF error.code = "ENOENT"
    THEN "File not found. Please check the file path."
    ELSE IF error.message # ""
    THEN error.message
    ELSE "An unexpected error occurred. Please try again."

\* ErrorHandler.handle: the standardized error response (its timestamp and
\* the echoed request fields of the context are left out).
handle(error, operation) ==
    [success |-> FALSE,
     error |-> [type |-> getErrorType(error),
                message |-> getErrorMessage(error),
                operation |-> operation]]

\* The services throw the object handle() returns, not an Error: a plain
\* {success, error} object, whose own status, code, name and message
\* properties are all undefined when the next handler reads them.
thrownErrorResponse(errorResponse) == ErrorValue(0, "", "", "")

(* ----------------------------- FileService ----------------------------- *)

VECTOR_STORE_NOT_CONFIGURED ==
    "VECTOR_STORE_ID not configured in environment variables. Please run: npm run init:vectorstore"

\* a getVectorStoreId that hands out the id without checking it is set
getVectorStoreId_unchecked(configuredId) ==
    [threw |-> FALSE, value |-> configuredId, error |-> [status |-> 0, code |-> "",
                                                        name |-> "", message |-> ""]]

\* getVectorStoreId: the id, or the Error it throws
getVectorStoreId(configuredId) ==
    IF configuredId = <<>>
    THEN [threw |-> TRUE, value |-> <<>>,
          error |-> ErrorValue(0, "", "Error", VECTOR_STORE_NOT_CONFIGURED)]
    ELSE [threw |-> FALSE, value |-> configuredId,
          error |-> ErrorValue(0, "", "", "")]

(* ------------------------ MemoryService (Solution 1) ------------------- *)

\* an optional number argument: null, NaN, or a number
Null == [kind |-> "null", n |-> 0]
NaN == [kind |-> "NaN", n |-> 0]
Num(n) == [kind |-> "number", n |-> n]
\* JS truthiness of such a value
Truthy(v) == v.kind = "number" /\ v.n # 0

\* no response id (null)
NoResponseId == 0

\* a slice that takes the first k elements, slice(0, k)
sliceFirst(history, k) ==
    SubSeq(history, 1, IF k < Len(history) THEN k ELSE Len(history))

\* Array.prototype.slice(-k) for k > 0
sliceLast(history, k) ==
    SubSeq(history, (IF Len(history) - k > 0 THEN Len(history) - k ELSE 0) + 1, Len(history))

getPreviousResponseId(conv, threadId) ==
    IF threadId \notin DOMAIN conv \/ Len(conv[threadId].history) = 0
    THEN NoResponseId
    ELSE conv[threadId].history[Len(conv[threadId].history)].responseId

newConversation(threadId, time) ==
    [threadId |-> threadId, history |-> <<>>, createdAt |-> time, lastUpdated |-> time]

\* a saveResponse that replaces the history by the new turn
saveResponse_overwrites(conv, threadId, responseId, query, fileAnswer, webAnswer, usage, time) ==
    LET base == IF threadId \in DOMAIN conv
                THEN conv
                ELSE conv @@ (threadId :> newConversation(threadId, time))
        entry == [responseId |-> responseId, query |-> query,
                  fileAnswer |-> fileAnswer, webAnswer |-> webAnswer,
                  usage |-> usage, timestamp |-> time]
    IN [base EXCEPT ![threadId].history = <<entry>>,
                    ![threadId].lastUpdated = time]

\* a saveResponse that marks every conversation as updated
saveResponse_touchesAll(conv, threadId, responseId, query, fileAnswer, webAnswer, usage, time) ==
    LET base == IF threadId \in DOMAIN conv
                THEN conv
                ELSE conv @@ (threadId :> newConversation(threadId, time))
        entry == [responseId |-> responseId, query |-> query,
                  fileAnswer |-> fileAnswer, webAnswer |-> webAnswer,
                  usage |-> usage, timestamp |-> time]
    IN [t \in DOMAIN base |->
          IF t = threadId
          THEN [base[t] EXCEPT !.history = Append(@, entry), !.lastUpdated = time]
          ELSE [base[t] EXCEPT !.lastUpdated = time]]

saveResponse(conv, threadId, responseId, query, fileAnswer, webAnswer, usage, time) ==
    LET base == IF threadId \in DOMAIN conv
                THEN conv
                ELSE conv @@ (threadId :> newConversation(threadId, time))
        entry == [responseId |-> responseId, query |-> query,
                  fileAnswer |-> fileAnswer, webAnswer |-> webAnswer,
                  usage |-> usage, timestamp |-> time]
    IN [base EXCEPT ![threadId].history = Append(@, entry),
                    ![threadId].lastUpdated = time]

historyView(entry) ==
    [query |-> entry.query, fileAnswer |-> entry.fileAnswer,
     webAnswer |-> entry.webAnswer, timestamp |-> entry.timestamp,
     usage |-> entry.usage]

getHistory(conv, threadId, limit) ==
    IF threadId \notin DOMAIN conv
    THEN <<>>
    ELSE LET all == conv[threadId].history
             history == IF Truthy(limit) /\ limit.n > 0
                        THEN sliceLast(all, limit.n)
                        ELSE all
         IN [i \in 1..Len(history) |-> historyView(history[i])]

\* the forEach accumulation of one usage field over a history
RECURSIVE sumUsage(_, _)
sumUsage(history, field) ==
    IF history = <<>> THEN 0
    ELSE sumUsage(SubSeq(history, 1, Len(history) - 1), field)
         + history[Len(history)].usage[field]

\* a totalUsage that reports the usage of the last turn only
totalUsage_lastTurn(history) ==
    LET last == SubSeq(history, Len(history), Len(history))
    IN [input_tokens |-> sumUsage(last, "input_tokens"),
        output_tokens |-> sumUsage(last, "output_tokens"),
        total_tokens |-> sumUsage(last, "input_tokens") + sumUsage(last, "output_tokens"),
        estimated_cost |-> sumUsage(last, "estimated_cost")]

totalUsage(history) ==
    [input_tokens |-> sumUsage(history, "input_tokens"),
     output_tokens |-> sumUsage(history, "output_tokens"),
     total_tokens |-> sumUsage(history, "input_tokens") + sumUsage(history, "output_tokens"),
     estimated_cost |-> sumUsage(history, "estimated_cost")]

getConversationSummary(conv, threadId) ==
    IF threadId \notin DOMAIN conv
    THEN [exists |-> FALSE, threadId |-> threadId]
    ELSE [exists |-> TRUE, threadId |-> threadId,
          messageCount |-> Len(conv[threadId].history),
          createdAt |-> conv[threadId].createdAt,
          lastUpdated |-> conv[threadId].lastUpdated,
          totalUsage |-> totalUsage(conv[threadId].history)]

\* a clearHistory that empties the history but keeps the conversation
clearHistory_keepsThread(conv, threadId) ==
    IF threadId \in DOMAIN conv
    THEN [returned |-> TRUE, conversations |-> [conv EXCEPT ![threadId].history = <<>>]]
    ELSE [returned |-> FALSE, conversations |-> conv]

\* clearHistory: the value returned and the map afterwards
clearHistory(conv, threadId) ==
    IF threadId \in DOMAIN conv
    THEN [returned |-> TRUE,
          conversations |-> [t \in DOMAIN conv \ {threadId} |-> conv[t]]]
    ELSE [returned |-> FALSE, conversations |-> conv]

\* the sum of a sequence of numbers
RECURSIVE sumSeq(_)
sumSeq(xs) == IF xs = <<>> THEN 0 ELSE Head(xs) + sumSeq(Tail(xs))

\* Array.from(map.values()) in some order: the totals below do not depend on it
RECURSIVE valuesOf(_)
valuesOf(conv) ==
    IF DOMAIN conv = {} THEN <<>>
    ELSE LET t == CHOOSE x \in DOMAIN conv : TRUE
         IN <<conv[t]>> \o valuesOf([u \in DOMAIN conv \ {t} |-> conv[u]])

getStatistics(conv) ==
    LET threads == valuesOf(conv)
        per(field) == sumSeq([i \in 1..Len(threads) |-> sumUsage(threads[i].history, field)])
    IN [activeThreads |-> Len(threads),
        totalMessages |-> sumSeq([i \in 1..Len(threads) |-> Len(threads[i].history)]),
        totalUsage |-> [input_tokens |-> per("input_tokens"),
                        output_tokens |-> per("output_tokens"),
                        total_tokens |-> per("input_tokens") + per("output_tokens"),
                        estimated_cost |-> per("estimated_cost")]]

\* a cleanup that also removes a conversation exactly maxAgeHours old
cleanupOldConversations_inclusive(conv, maxAgeHours, time) ==
    LET old == {t \in DOMAIN conv : time - conv[t].lastUpdated >= maxAgeHours * 3600000}
    IN [returned |-> Cardinality(old),
        conversations |-> [t \in DOMAIN conv \ old |-> conv[t]]]

\* cleanupOldConversations: the count returned and the map afterwards
cleanupOldConversations(conv, maxAgeHours, time) ==
    LET maxAge == maxAgeHours * 60 * 60 * 1000
        old == {t \in DOMAIN conv : time - conv[t].lastUpdated > maxAge}
    IN [returned |-> Cardinality(old),
        conversations |-> [t \in DOMAIN conv \ old |-> conv[t]]]

(* ---------------------------- ResponseService -------------------------- *)

CHEAPEST == "gpt-4o-mini"

\* a fileSearch that never passes the previous response id on
fileSearchRequest_noContext(query, vectorStoreId, previousResponseId) ==
    [model |-> "gpt-4o-mini", input |-> query, tool |-> "file_search",
     vector_store_ids |-> <<vectorStoreId>>, store |-> TRUE,
     previous_response_id |-> <<>>]

\* the request fileSearch hands to client.responses.create; an absent
\* previous_response_id key is <<>>
fileSearchRequest(query, vectorStoreId, previousResponseId) ==
    [model |-> CHEAPEST, input |-> query, tool |-> "file_search",
     vector_store_ids |-> <<vectorStoreId>>, store |-> TRUE,
     previous_response_id |->
        IF previousResponseId # NoResponseId THEN <<previousResponseId>> ELSE <<>>]

\* the request webSearch hands to client.responses.create
webSearchRequest(query) ==
    [model |-> CHEAPEST, input |-> query, tool |-> "web_search_preview",
     vector_store_ids |-> <<>>, store |-> FALSE, previous_response_id |-> <<>>]

\* a cost with the two prices exchanged
estimatedCost_swapped(inputTokens, outputTokens) ==
    inputTokens * OutputPrice + outputTokens * InputPrice

\* (tokens / 1000000) * 0.15 + (tokens / 1000000) * 0.6, in 10^-8 dollars
estimatedCost(inputTokens, outputTokens) ==
    inputTokens * InputPrice + outputTokens * OutputPrice

\* the result query() builds from the two responses
queryResult(fileResponse, webResponse, time) ==
    LET totalInputTokens == fileResponse.usage.input_tokens + webResponse.usage.input_tokens
        totalOutputTokens == fileResponse.usage.output_tokens + webResponse.usage.output_tokens
    IN [success |-> TRUE,
        fileAnswer |-> fileResponse.output_text,
        webAnswer |-> webResponse.output_text,
        fileResponseId |-> fileResponse.id,
        webResponseId |-> webResponse.id,
        model |-> CHEAPEST,
        usage |-> [input_tokens |-> totalInputTokens,
                   output_tokens |-> totalOutputTokens,
                   total_tokens |-> totalInputTokens + totalOutputTokens,
                   estimated_cost |-> estimatedCost(totalInputTokens, totalOutputTokens)],
        timestamp |-> time]

(* ------------------------ MemoryService (Solution 2) ------------------- *)

\* saveResponse of Solution 2's memory: metadata is {model, responseTime}
saveResponse2(conv, threadId, query, fileAnswer, webAnswer, usage, metadata, time) ==
    LET base == IF threadId \in DOMAIN conv
                THEN conv
                ELSE conv @@ (threadId :> newConversation(threadId, time))
        entry == [query |-> query, fileAnswer |-> fileAnswer, webAnswer |-> webAnswer,
                  usage |-> usage, timestamp |-> time,
                  model |-> metadata.model, responseTime |-> metadata.responseTime]
    IN [base EXCEPT ![threadId].history = Append(@, entry),
                    ![threadId].lastUpdated = time]

getHistory2(conv, threadId, limit) ==
    IF threadId \notin DOMAIN conv
    THEN <<>>
    ELSE LET all == conv[threadId].history
             history == IF Truthy(limit) /\ limit.n > 0
                        THEN sliceLast(all, limit.n)
                        ELSE all
         IN [i \in 1..Len(history) |->
                [query |-> history[i].query, fileAnswer |-> history[i].fileAnswer,
                 webAnswer |-> history[i].webAnswer, timestamp |-> history[i].timestamp,
                 usage |-> history[i].usage, model |-> history[i].model,
                 responseTime |-> history[i].responseTime]]

\* the usage of Solution 2 is {inputTokens, outputTokens, cost}; cost is the
\* dollar string "$0.000123", held here as its number of 10^-6 dollars
getConversationSummary2(conv, threadId) ==
    IF threadId \notin DOMAIN conv
    THEN [exists |-> FALSE, threadId |-> threadId]
    ELSE LET history == conv[threadId].history
         IN [exists |-> TRUE, threadId |-> threadId,
             messageCount |-> Len(history),
             createdAt |-> conv[threadId].createdAt,
             lastUpdated |-> conv[threadId].lastUpdated,
             totalUsage |-> [input_tokens |-> sumUsage(history, "inputTokens"),
                             output_tokens |-> sumUsage(history, "outputTokens"),
                             total_tokens |-> sumUsage(history, "inputTokens")
                                              + sumUsage(history, "outputTokens"),
                             estimated_cost |-> sumUsage(history, "cost")]]

clearHistory2(conv, threadId) ==
    IF threadId \in DOMAIN conv
    THEN [returned |-> TRUE,
          conversations |-> [t \in DOMAIN conv \ {threadId} |-> conv[t]]]
    ELSE [returned |-> FALSE, conversations |-> conv]

(* --------------------- MemoryService (the agent's memory) -------------- *)

\* a saveConversation without the limit
saveConversation_unlimited(conv, threadId, query, answer, time) ==
    LET base == IF threadId \in DOMAIN conv THEN conv ELSE conv @@ (threadId :> <<>>)
    IN [base EXCEPT ![threadId] =
            Append(@, [query |-> query, answer |-> answer, timestamp |-> time])]

\* saveConversation: push the message (its metadata fields model, cost and
\* fallback are left out), then keep the last HistoryLimit
saveConversation(conv, threadId, query, answer, time) ==
    LET base == IF threadId \in DOMAIN conv THEN conv ELSE conv @@ (threadId :> <<>>)
        conversation == Append(base[threadId],
                               [query |-> query, answer |-> answer, timestamp |-> time])
    IN [base EXCEPT ![threadId] =
            IF Len(conversation) > HistoryLimit
            THEN SubSeq(conversation, Len(conversation) - HistoryLimit + 1, Len(conversation))
            ELSE conversation]

getConversationHistory(conv, threadId) ==
    IF threadId \in DOMAIN conv THEN conv[threadId] ELSE <<>>

clearConversation(conv, threadId) == [t \in DOMAIN conv \ {threadId} |-> conv[t]]

(* ------------------------ PDFService and RAGService -------------------- *)

\* Math.ceil(n / 4)
ceil4(n) == (n + 3) \div 4

\* Array.prototype.join('\n\n') of strings
RECURSIVE join(_)
join(texts) ==
    IF texts = <<>> THEN <<>>
    ELSE IF Len(texts) = 1 THEN texts[1]
    ELSE texts[1] \o <<"\n", "\n">> \o join(Tail(texts))

\* PDFService.search: what it returns for the documents the retriever found;
\* the embedding cost (tokens * 0.02 / 1000000).toFixed(6) in 10^-6 dollars is 0
\* below 25 tokens
search(docs, query) ==
    [content |-> join([i \in 1..Len(docs) |-> docs[i].pageContent]),
     documents |-> [i \in 1..Len(docs) |->
                       [id |-> i, content |-> docs[i].pageContent,
                        source |-> IF docs[i].source # "" THEN docs[i].source ELSE "FK.pdf"]],
     embeddingCost |-> [tokens |-> ceil4(Len(query)), model |-> "text-embedding-3-small"]]

\* no document, no embedding cost (null)
NoDocument == [id |-> 0, content |-> <<>>, source |-> ""]
NoEmbeddingCost == [tokens |-> 0, model |-> ""]

\* RAGService.fileSearch: what it returns for the result of search
fileSearch(result) ==
    IF Len(result.documents) = 0
    THEN [documents |-> <<>>, topDocument |-> NoDocument, embeddingCost |-> NoEmbeddingCost]
    ELSE [documents |-> result.documents, topDocument |-> result.documents[1],
          embeddingCost |-> result.embeddingCost]

\* a webSearch that reports the tool's failure as a result
webSearch_reportsFailure(output) ==
    IF output.threw
    THEN [results |-> <<[id |-> 1, title |-> "No title", url |-> "",
                         content |-> "Web search failed"]>>]
    ELSE [results |-> [i \in 1..Len(output.results) |->
                          [id |-> i, title |-> output.results[i].title,
                           url |-> output.results[i].url,
                           content |-> output.results[i].content]]]

\* RAGService.webSearch: what it returns for what the Tavily tool answered, a
\* list of results, or a string that JSON.parse rejects; and when the tool threw
webSearch(output) ==
    IF output.threw \/ ~output.parsable
    THEN [results |-> <<>>]
    ELSE [results |-> [i \in 1..Len(output.results) |->
                          [id |-> i,
                           title |-> IF output.results[i].title # ""
                                     THEN output.results[i].title ELSE "No title",
                           url |-> output.results[i].url,
                           content |-> output.results[i].content]]]

\* (inputTokens * 0.15 + outputTokens * 0.6) / 1000000 with toFixed(6): the
\* number of 10^-6 dollars, rounded
estimatedCost2(inputTokens, outputTokens) ==
    (inputTokens * InputPrice + outputTokens * OutputPrice + 50) \div 100

\* a generateAnswer that builds its context from no document
generateAnswer_noContext(answer, fileSearchResults) ==
    [answer |-> answer, usedModel |-> "gpt-4o-mini", cost |-> "paid", fallback |-> FALSE,
     context |-> <<>>,
     usage |-> [inputTokens |-> 0, outputTokens |-> (Len(answer) + 3) \div 4,
                cost |-> ((((Len(answer) + 3) \div 4) * 60) + 50) \div 100]]

\* RAGService.generateAnswer: what it returns for the answer of the LLM
generateAnswer(answer, fileSearchResults) ==
    LET context == join([i \in 1..Len(fileSearchResults.documents) |->
                            fileSearchResults.documents[i].content])
        inputTokens == ceil4(Len(context))
        outputTokens == ceil4(Len(answer))
    IN [answer |-> answer, usedModel |-> CHEAPEST, cost |-> "paid", fallback |-> FALSE,
        context |-> context,
        usage |-> [inputTokens |-> inputTokens, outputTokens |-> outputTokens,
                   cost |-> estimatedCost2(inputTokens, outputTokens)]]

NoWebResult == [id |-> 0, title |-> "", url |-> "", content |-> ""]

\* the result RAGService.query builds
ragQueryResult(answerResult, fileSearchResults, webSearchResults, startTime, endTime) ==
    [fileSearchWithLLM |-> [answer |-> answerResult.answer,
                            model |-> answerResult.usedModel,
                            cost |-> answerResult.cost,
                            fallback |-> answerResult.fallback,
                            sourceDocument |-> fileSearchResults.topDocument,
                            totalDocuments |-> Len(fileSearchResults.documents)],
     webSearch |-> [topResult |-> IF Len(webSearchResults.results) > 0
                                  THEN webSearchResults.results[1] ELSE NoWebResult,
                    totalResults |-> Len(webSearchResults.results)],
     usage |-> answerResult.usage,
     embeddingCost |-> fileSearchResults.embeddingCost,
     responseTime |-> endTime - startTime]

(* ----------------------- waitForFileProcessing ------------------------ *)

\* what client.vectorStores.files.retrieve answers on a poll: a file status,
\* with or without last_error.message, or it throws
FileStatuses ==
    {[threw |-> FALSE, status |-> "in_progress", last_error |-> <<>>],
     [threw |-> FALSE, status |-> "completed", last_error |-> <<>>],
     [threw |-> FALSE, status |-> "failed", last_error |-> <<>>],
     [threw |-> FALSE, status |-> "failed", last_error |-> <<"b", "a", "d">>],
     [threw |-> TRUE, status |-> "", last_error |-> <<>>]}

\* the errors waitForFileProcessing throws: `File processing failed: ${
\* fileStatus.last_error?.message || 'Unknown error'}`, the timeout, and the
\* error retrieve threw
ProcessingFailed(fileStatus) ==
    [message |-> "File processing failed: ",
     detail |-> IF fileStatus.last_error # <<>> THEN fileStatus.last_error
                ELSE <<"Unknown error">>]
ProcessingTimeout == [message |-> "File processing timeout", detail |-> <<>>]
RetrieveError == [message |-> "APIError", detail |-> <<>>]
NoError == [message |-> "", detail |-> <<>>]

\* no call of waitForFileProcessing made yet
NotWaiting == [pc |-> "idle", i |-> 0, maxAttempts |-> 0, polls |-> <<>>, error |-> NoError]

\* a loop that returns when its attempts are used up
loopHead_noTimeout(wait, i) ==
    IF i < wait.maxAttempts
    THEN [wait EXCEPT !.pc = "polling", !.i = i]
    ELSE [wait EXCEPT !.pc = "returned", !.i = i]

\* the head of the for loop, reached with counter i: another poll while
\* i < maxAttempts, else the timeout is thrown
loopHead(wait, i) ==
    IF i < wait.maxAttempts
    THEN [wait EXCEPT !.pc = "polling", !.i = i]
    ELSE [wait EXCEPT !.pc = "threw", !.i = i, !.error = ProcessingTimeout]

\* a catch block that rethrows on every attempt
catchBlock_rethrows(wait, error) == [wait EXCEPT !.pc = "threw", !.error = error]

\* the catch block of the loop body: the error is rethrown on the last
\* attempt only; on any other the loop goes on with the next attempt
catchBlock(wait, error) ==
    IF wait.i = wait.maxAttempts - 1
    THEN [wait EXCEPT !.pc = "threw", !.error = error]
    ELSE loopHead(wait, wait.i + 1)

(* --------------------- the front end: public/js/app.js ----------------- *)

\* the page once the script has run: state as declared, every button enabled,
\* nothing shown, and loadConfig1() waiting for its fetch
PageLoaded ==
    [vectorStoreId |-> <<>>, isQuerying |-> FALSE,
     config |-> "loading", vectorStoreStatus1 |-> "Loading...",
     submitBtn1 |-> [disabled |-> FALSE],
     submitBtn2 |-> [disabled |-> FALSE],
     submitBtnBoth |-> [disabled |-> FALSE],
     loadingOverlay |-> [hidden |-> TRUE], loadingText |-> "",
     alert |-> "",
     answer1 |-> "hidden", answer2 |-> "hidden",
     pending |-> {}, running |-> "none"]

\* the three query buttons disabled or enabled together
setButtons(p, disabled) ==
    [p EXCEPT !.submitBtn1.disabled = disabled,
              !.submitBtn2.disabled = disabled,
              !.submitBtnBoth.disabled = disabled]

\* the finally block of the three click handlers
finallyBlock(p) ==
    [setButtons(p, FALSE) EXCEPT !.isQuerying = FALSE, !.running = "none",
                                 !.loadingOverlay.hidden = TRUE]

\* querySolution1(query) up to its await: without a vector store id it shows
\* the error and returns, else it shows the spinners and sends the request
querySolution1(p) ==
    IF p.vectorStoreId = <<>>
    THEN [p EXCEPT !.alert = "Vector Store not loaded for Solution 1"]
    ELSE [p EXCEPT !.answer1 = "searching", !.pending = @ \cup {"solution1"}]

\* querySolution2(query) up to its await
querySolution2(p) ==
    [p EXCEPT !.answer2 = "searching", !.pending = @ \cup {"solution2"}]

\* the checks every click handler starts with, on queryInput.value.trim():
\* the error it shows, "" when the query passes
queryError(query) ==
    IF Len(trim(query)) = 0 THEN "Please enter a question"
    ELSE IF Len(trim(query)) > MaxQueryLength
    THEN "Question too long, maximum 1000 characters"
    ELSE ""

\* a click handler from state.isQuerying = true on: the buttons are disabled,
\* the overlay shown, the queries started; with no request pending the finally
\* block runs at once
startQuerying(p, button, text) ==
    LET shown == [setButtons(p, TRUE) EXCEPT !.isQuerying = TRUE, !.running = button,
                                             !.loadingText = text,
                                             !.loadingOverlay.hidden = FALSE]
        started == IF button = "submitBtn1" THEN querySolution1(shown)
                   ELSE IF button = "submitBtn2" THEN querySolution2(shown)
                   ELSE querySolution2(querySolution1(shown))
    IN IF started.pending = {} THEN finallyBlock(started) ELSE started

(* ================================ state ================================ *)

VARIABLES
    \* Solution 1
    vectorStoreId,      \* FileService.vectorStoreId, from process.env.VECTOR_STORE_ID
    conversations,      \* MemoryService.conversations (Solution 1): thread id -> conversation
    reqs,               \* per client: the POST /query or GET /config request in flight
    nextId,             \* the remote API's next file-search response is number nextId
    nextWebId,          \* and its next web-search response number nextWebId
    started,            \* POST /api/solution1/query requests received so far
    saved,              \* history: per thread, the turns saved since it was last removed
    \* the server process
    resp,               \* the HTTP response sent last (or the direct call returned last)
    now,                \* the clock, in ms
    \* Solution 2
    ragService,         \* RAGService: llm, tavilySearch, isInitialized, usageCounts
    pdfService,         \* PDFService: supabaseClient, embeddings, vectorStore, isInitialized
    conversations2,     \* MemoryService.conversations (Solution 2): thread id -> conversation
    reqs2,              \* per client: the POST /query or POST /initialize request in flight
    started2,           \* POST requests of Solution 2 received so far
    saved2,             \* history: per thread, the turns saved since it was last removed
    \* the agent's memory (solution2/services/memoryService.js)
    agentConversations, \* MemoryService.conversations: thread id -> list of messages
    agentSaved,         \* history: per thread, the messages saved since it was last removed
    \* the agent (solution2/services/agentService.js)
    agentService,       \* AgentService: isInitialized, lastSearchResults
    agentReqs,          \* per caller: the agentService.query call in flight
    agentStarted,       \* agentService.query calls made so far
    \* the Gemini-first RAG service (RAGService with geminiLLM and openaiLLM)
    geminiService,      \* RAGService: llm, isInitialized, usageCounts
    geminiReqs,         \* per caller: the ragService.query call in flight
    geminiStarted,      \* calls of that query made so far
    geminiAnswered,     \* history: answers each of the two LLMs has produced
    \* the upload scripts
    fileWait,           \* the waitForFileProcessing call: position, i, polls made
    \* the two-solution front end (public/js/app.js)
    page                \* state, the buttons and what the page shows

\* Solution 1's own state, and with the process's response and clock
state1 == <<vectorStoreId, conversations, reqs, nextId, nextWebId, started, saved>>
vars1 == <<vectorStoreId, conversations, reqs, resp, nextId, nextWebId, started, now, saved>>
\* Solution 2's own state
state2 == <<ragService, pdfService, conversations2, reqs2, started2, saved2>>
\* the agent memory's own state
stateAgent == <<agentConversations, agentSaved, agentService, agentReqs, agentStarted>>

\* the Gemini-first RAG service and the file-processing wait
stateGemini == <<geminiService, geminiReqs, geminiStarted, geminiAnswered>>
stateScripts == <<stateGemini, fileWait, page>>

vars == <<state1, resp, now, state2, stateAgent, stateScripts>>

(* ------------------------------- inputs -------------------------------- *)

Clients == {"c1", "c2"}

T1 == <<"t", "1">>
VS_ID == <<"v", "s", "_", "1">>

\* query fields of request bodies: a valid one (that sanitizing changes),
\* whitespace only, empty, and not a string
QueryBodies ==
    {StringValue(<<" ", "a", " ", "\t", "b">>),
     StringValue(<<" ">>), StringValue(<<>>), NotAString}

\* threadId fields of request bodies: absent, valid, invalid
ThreadIdBodies == {<<>>, T1, <<"t", "!">>}

\* :threadId of the history routes
ThreadIdParams == {DEFAULT_THREAD, T1, <<"t", "!">>}

\* every thread id a conversation can be stored under
ThreadIds == {DEFAULT_THREAD, T1}

\* what the remote API answers
FileTexts == {"file answer"}
WebTexts == {"web answer"}
\* the token usage it reports with its n-th file-search and n-th web-search
\* response: different for every response
FileUsage(n) == [input_tokens |-> 100 + 7 * n, output_tokens |-> 40 + 3 * n]
WebUsage(n) == [input_tokens |-> 5 + n, output_tokens |-> 11 + 2 * n]

\* how a remote call fails: rate limit, server error, no connection
RemoteErrors ==
    {ErrorValue(429, "", "Error", "429 Rate limit reached"),
     ErrorValue(500, "", "Error", "500 Internal server error"),
     ErrorValue(0, "ECONNREFUSED", "Error", "Connection error.")}

\* limit arguments of getHistory
Limits == {Null, NaN, Num(-1), Num(0), Num(1), Num(2), Num(3), Num(4), Num(5)}

\* maxAgeHours arguments of cleanupOldConversations
MaxAges == {0, 1}

(* ------------------------------ responses ------------------------------ *)

IdleRequest == [pc |-> "idle"]
NoResponse == [route |-> "none", status |-> 0]

\* res.status(status).json(body), with the request it answers; upstream is
\* the HTTP status of the remote failure behind it (0: none), kept for the
\* properties only
Response(route, request, status, body, upstream) ==
    [route |-> route, request |-> request, status |-> status, body |-> body,
     upstream |-> upstream]

NoTurns == [t \in ThreadIds |-> <<>>]

\* resp holds a response only in the state after the step that sends it: the
\* next step is ResponseSent, and every other step waits for it.  So resp is
\* always the outcome of the step just taken, seen in that step's post-state.
Ready == resp = NoResponse

Init ==
    /\ vectorStoreId \in {<<>>, VS_ID}
    /\ conversations = <<>>
    /\ reqs = [c \in Clients |-> IdleRequest]
    /\ resp = NoResponse
    /\ nextId = 1
    /\ nextWebId = 1
    /\ started = 0
    /\ now = 0
    /\ saved = NoTurns
    /\ ragService = [llm |-> 0, tavilySearch |-> 0, isInitialized |-> FALSE,
                     usageCounts |-> [free |-> 0, paid |-> 0]]
    /\ pdfService = [vectorStore |-> 0, embeddings |-> FALSE, supabaseClient |-> FALSE,
                     isInitialized |-> FALSE]
    /\ conversations2 = <<>>
    /\ reqs2 = [c \in Clients |-> IdleRequest]
    /\ started2 = 0
    /\ saved2 = NoTurns
    /\ agentConversations = <<>>
    /\ agentSaved = NoTurns
    /\ agentService = [isInitialized |-> FALSE,
                       lastSearchResults |-> [fileSearch |-> <<>>, webSearch |-> <<>>]]
    /\ agentReqs = [c \in Clients |-> IdleRequest]
    /\ agentStarted = 0
    /\ geminiService = [llm |-> "null", isInitialized |-> FALSE,
                        usageCounts |-> [free |-> 0, paid |-> 0]]
    /\ geminiReqs = [c \in Clients |-> IdleRequest]
    /\ geminiStarted = 0
    /\ geminiAnswered = [free |-> 0, paid |-> 0]
    /\ fileWait = NotWaiting
    /\ page = PageLoaded

(* ======================= Solution 1: routes/api.js ===================== *)

\* threadId || 'default'
orDefault(threadId) == IF threadId = <<>> THEN DEFAULT_THREAD ELSE threadId

\* POST /api/solution1/query, up to the await of responseService.query:
\* validation, getVectorStoreId, sanitizing, getPreviousResponseId, and the two
\* remote requests that query() starts through fileSearch and webSearch
QueryRequest(c, query, threadId) ==
    LET request == [query |-> query, threadId |-> threadId]
        queryValidation == validateQuery(query)
        threadIdValidation == validateThreadId(orDefault(threadId))
        vs == getVectorStoreId(vectorStoreId)
        sanitizedQuery == sanitizeQuery(query.text)
        finalThreadId == orDefault(threadId)
        previousResponseId == getPreviousResponseId(conversations, finalThreadId)
    IN /\ Ready /\ UNCHANGED <<state2, stateAgent, stateScripts>>
       /\ reqs[c].pc = "idle"
       /\ started < MaxQueries
       /\ started' = started + 1
       /\ IF ~queryValidation.valid
          THEN /\ resp' = Response("query", request, 400,
                                   [success |-> FALSE, error |-> queryValidation.error], 0)
               /\ UNCHANGED reqs
          ELSE IF ~threadIdValidation.valid
          THEN /\ resp' = Response("query", request, 400,
                                   [success |-> FALSE, error |-> threadIdValidation.error], 0)
               /\ UNCHANGED reqs
          ELSE IF vs.threw
          THEN /\ resp' = Response("query", request, 500, handle(vs.error, "query"), 0)
               /\ UNCHANGED reqs
          ELSE /\ reqs' = [reqs EXCEPT ![c] =
                              [pc |-> "query", request |-> request,
                               threadId |-> finalThreadId, query |-> sanitizedQuery,
                               fileRequest |-> fileSearchRequest(sanitizedQuery, vs.value,
                                                                 previousResponseId),
                               webRequest |-> webSearchRequest(sanitizedQuery),
                               fileResponse |-> <<>>, webResponse |-> <<>>]]
               /\ UNCHANGED resp
       /\ UNCHANGED <<vectorStoreId, conversations, nextId, nextWebId, now, saved>>

\* the rest of POST /query once both remote responses are there: query()
\* builds the result, the route saves it to memory and sends it
QueryCompletes(c, fileResponse, webResponse) ==
    LET result == queryResult(fileResponse, webResponse, now)
        turn == [query |-> reqs[c].query, fileAnswer |-> fileResponse.output_text,
                 webAnswer |-> webResponse.output_text, timestamp |-> now,
                 usage |-> result.usage]
    IN /\ conversations' = saveResponse(conversations, reqs[c].threadId,
                                        result.fileResponseId, reqs[c].query,
                                        result.fileAnswer, result.webAnswer,
                                        result.usage, now)
       /\ saved' = [saved EXCEPT ![reqs[c].threadId] = Append(@, turn)]
       /\ resp' = Response("query", reqs[c].request, 200,
                           [result |-> result, file |-> fileResponse,
                            web |-> webResponse, threadId |-> reqs[c].threadId], 0)
       /\ reqs' = [reqs EXCEPT ![c] = IdleRequest]

\* a failure path that stores the turn without answers before answering 500
QueryFails_savesTurn(c, error) ==
    /\ resp' = Response("query", reqs[c].request, 500,
                        handle(thrownErrorResponse(handle(error, "query")), "query"),
                        error.status)
    /\ reqs' = [reqs EXCEPT ![c] = IdleRequest]
    /\ conversations' = saveResponse(conversations, reqs[c].threadId, NoResponseId,
                                     reqs[c].query, "", "",
                                     [input_tokens |-> 0, output_tokens |-> 0,
                                      total_tokens |-> 0, estimated_cost |-> 0], now)
    /\ UNCHANGED saved

\* the rest of POST /query once a remote call has failed: fileSearch or
\* webSearch rethrows the error, Promise.all rejects with it, query() throws
\* handle(error), and the route answers 500 with handle() of what it caught
QueryFails(c, error) ==
    /\ resp' = Response("query", reqs[c].request, 500,
                        handle(thrownErrorResponse(handle(error, "query")), "query"),
                        error.status)
    /\ reqs' = [reqs EXCEPT ![c] = IdleRequest]
    /\ UNCHANGED <<conversations, saved>>

\* The remote API names every response it creates with a fresh id ("resp_..."):
\* the n-th file-search response and the n-th web-search response of a run
FileResponseId(n) == 2 * n - 1
WebResponseId(n) == 2 * n

\* the remote API answers the file-search request of client c
FileSearchReturns(c) ==
    /\ Ready /\ UNCHANGED <<state2, stateAgent, stateScripts>>
    /\ reqs[c].pc = "query"
    /\ reqs[c].fileResponse = <<>>
    /\ \/ \E text \in FileTexts :
            LET response == [id |-> FileResponseId(nextId), output_text |-> text,
                             usage |-> FileUsage(nextId)]
            IN /\ nextId' = nextId + 1
               /\ IF reqs[c].webResponse # <<>>
                  THEN QueryCompletes(c, response, reqs[c].webResponse[1])
                  ELSE /\ reqs' = [reqs EXCEPT ![c].fileResponse = <<response>>]
                       /\ UNCHANGED <<conversations, saved, resp>>
       \/ \E error \in RemoteErrors :
            /\ QueryFails(c, error)
            /\ UNCHANGED nextId
    /\ UNCHANGED <<vectorStoreId, nextWebId, started, now>>

\* the remote API answers the web-search request of client c
WebSearchReturns(c) ==
    /\ Ready /\ UNCHANGED <<state2, stateAgent, stateScripts>>
    /\ reqs[c].pc = "query"
    /\ reqs[c].webResponse = <<>>
    /\ \/ \E text \in WebTexts :
            LET response == [id |-> WebResponseId(nextWebId), output_text |-> text,
                             usage |-> WebUsage(nextWebId)]
            IN /\ nextWebId' = nextWebId + 1
               /\ IF reqs[c].fileResponse # <<>>
                  THEN QueryCompletes(c, reqs[c].fileResponse[1], response)
                  ELSE /\ reqs' = [reqs EXCEPT ![c].webResponse = <<response>>]
                       /\ UNCHANGED <<conversations, saved, resp>>
       \/ \E error \in RemoteErrors :
            /\ QueryFails(c, error)
            /\ UNCHANGED nextWebId
    /\ UNCHANGED <<vectorStoreId, nextId, started, now>>

\* GET /api/solution1/config, up to the await of getVectorStoreInfo
ConfigRequest(c) ==
    LET vs == getVectorStoreId(vectorStoreId)
    IN /\ Ready /\ UNCHANGED <<state2, stateAgent, stateScripts>>
       /\ reqs[c].pc = "idle"
       /\ IF vs.threw
          THEN /\ resp' = Response("config", <<>>, 500, handle(vs.error, "getConfig"), 0)
               /\ UNCHANGED reqs
          ELSE /\ reqs' = [reqs EXCEPT ![c] = [pc |-> "config", vectorStoreId |-> vs.value]]
               /\ UNCHANGED resp
       /\ UNCHANGED <<vectorStoreId, conversations, nextId, nextWebId, started, now, saved>>

\* the remote API answers vectorStores.retrieve: getVectorStoreInfo returns the
\* info, or throws handle(error), of which the route answers handle() again
ConfigReturns(c) ==
    /\ Ready /\ UNCHANGED <<state2, stateAgent, stateScripts>>
    /\ reqs[c].pc = "config"
    /\ \/ resp' = Response("config", <<>>, 200,
                           [success |-> TRUE, vectorStoreId |-> reqs[c].vectorStoreId], 0)
       \/ \E error \in RemoteErrors :
            resp' = Response("config", <<>>, 500,
                             handle(thrownErrorResponse(handle(error, "getVectorStoreInfo")),
                                    "getConfig"),
                             error.status)
    /\ reqs' = [reqs EXCEPT ![c] = IdleRequest]
    /\ UNCHANGED <<vectorStoreId, conversations, nextId, nextWebId, started, now, saved>>

\* the ?limit= values the clients send; parseInt of them; and the route's
\* `limit ? parseInt(limit) : null`
LimitParams == {"", "abc", "-1", "0", "1", "2"}
parseInt(text) ==
    CASE text = "-1" -> Num(-1)
      [] text = "0" -> Num(0)
      [] text = "1" -> Num(1)
      [] text = "2" -> Num(2)
      [] OTHER -> NaN
limitArgument(text) == IF text # "" THEN parseInt(text) ELSE Null

\* GET /api/solution1/history/:threadId?limit=
HistoryRequest(threadId, limit) ==
    LET validation == validateThreadId(threadId)
        request == [threadId |-> threadId, limit |-> limit]
    IN /\ Ready /\ UNCHANGED <<state2, stateAgent, stateScripts>>
       /\ resp' =
            IF ~validation.valid
            THEN Response("history", request, 400,
                          [success |-> FALSE, error |-> validation.error], 0)
            ELSE Response("history", request, 200,
                          [success |-> TRUE, threadId |-> threadId,
                           summary |-> getConversationSummary(conversations, threadId),
                           history |-> getHistory(conversations, threadId,
                                                  limitArgument(limit))], 0)
       /\ UNCHANGED <<vectorStoreId, conversations, reqs, nextId, nextWebId, started, now, saved>>

\* DELETE /api/solution1/history/:threadId
ClearHistoryRequest(threadId) ==
    LET validation == validateThreadId(threadId)
        request == [threadId |-> threadId, held |-> threadId \in DOMAIN conversations]
        cleared == clearHistory(conversations, threadId)
    IN IF ~validation.valid
       THEN /\ Ready /\ UNCHANGED <<state2, stateAgent, stateScripts>>
            /\ resp' = Response("clear", request, 400,
                                [success |-> FALSE, error |-> validation.error], 0)
            /\ UNCHANGED <<vectorStoreId, conversations, reqs, nextId, nextWebId, started, now, saved>>
       ELSE /\ Ready /\ UNCHANGED <<state2, stateAgent, stateScripts>>
            /\ conversations' = cleared.conversations
            /\ saved' = [saved EXCEPT ![threadId] = <<>>]
            /\ resp' = Response("clear", request, 200,
                                [success |-> TRUE, returned |-> cleared.returned,
                                 message |-> IF cleared.returned
                                             THEN "History cleared successfully"
                                             ELSE "No history found for this thread"], 0)
            /\ UNCHANGED <<vectorStoreId, reqs, nextId, nextWebId, started, now>>

\* GET /api/solution1/statistics
StatisticsRequest ==
    /\ Ready /\ UNCHANGED <<state2, stateAgent, stateScripts>>
    /\ resp' = Response("statistics", <<>>, 200,
                        [success |-> TRUE, statistics |-> getStatistics(conversations)], 0)
    /\ UNCHANGED <<vectorStoreId, conversations, reqs, nextId, nextWebId, started, now, saved>>

\* a call of memoryService.cleanupOldConversations(maxAgeHours); no route and
\* no timer of the server makes it
CleanupOldConversations(maxAgeHours) ==
    LET cleaned == cleanupOldConversations(conversations, maxAgeHours, now)
    IN /\ Ready /\ UNCHANGED <<state2, stateAgent, stateScripts>>
       /\ conversations' = cleaned.conversations
       /\ saved' = [t \in ThreadIds |->
                       IF t \in DOMAIN cleaned.conversations THEN saved[t] ELSE <<>>]
       /\ resp' = [route |-> "cleanupOldConversations", maxAgeHours |-> maxAgeHours,
                   returned |-> cleaned.returned, before |-> conversations, at |-> now]
       /\ UNCHANGED <<vectorStoreId, reqs, nextId, nextWebId, started, now>>

\* time passes
Tick ==
    /\ Ready /\ UNCHANGED <<state2, stateAgent, stateScripts>>
    /\ now < MaxTicks * MsPerHour
    /\ now' = now + MsPerHour
    /\ UNCHANGED <<state1, resp>>

\* the response has left the server
ResponseSent ==
    /\ resp # NoResponse
    /\ resp' = NoResponse
    /\ UNCHANGED <<state1, stateScripts, now, state2, stateAgent>>

\* more time passes than the default maximum age of a conversation
LongTick ==
    /\ Ready /\ UNCHANGED <<state2, stateAgent, stateScripts>>
    /\ now <= MaxTicks * MsPerHour
    /\ now' = now + (DefaultMaxAgeHours + 1) * MsPerHour
    /\ UNCHANGED <<state1, resp>>

\* the server: its routes, the remote API's answers, and the clock
Server1 ==
    \/ \E c \in Clients, query \in QueryBodies, threadId \in ThreadIdBodies :
          QueryRequest(c, query, threadId)
    \/ \E c \in Clients : FileSearchReturns(c)
    \/ \E c \in Clients : WebSearchReturns(c)
    \/ \E c \in Clients : ConfigRequest(c)
    \/ \E c \in Clients : ConfigReturns(c)
    \/ \E threadId \in ThreadIdParams, limit \in LimitParams : HistoryRequest(threadId, limit)
    \/ \E threadId \in ThreadIdParams : ClearHistoryRequest(threadId)
    \/ StatisticsRequest
    \/ ResponseSent
    \/ Tick

Next1 ==
    \/ Server1
    \/ \E maxAgeHours \in MaxAges : CleanupOldConversations(maxAgeHours)

(* =================== Solution 2: routes, RAGService ==================== *)

\* what the retriever finds: nothing, or two chunks of the PDF
Retrieved ==
    {<<>>,
     <<[pageContent |-> <<"f", "k", "1">>, source |-> ""],
       [pageContent |-> <<"f", "k", "2", "x">>, source |-> "FK.pdf"]>>}

\* what the Tavily tool answers: results, no result, an unparsable string, or
\* it throws
TavilyOutputs ==
    {[threw |-> FALSE, parsable |-> TRUE,
      results |-> <<[title |-> "", url |-> "u1", content |-> "w1"],
                    [title |-> "t2", url |-> "u2", content |-> "w2"]>>],
     [threw |-> FALSE, parsable |-> TRUE, results |-> <<>>],
     [threw |-> FALSE, parsable |-> FALSE, results |-> <<>>],
     [threw |-> TRUE, parsable |-> FALSE, results |-> <<>>]}

\* what the LLM answers
Answers == {<<"s", "v", "a", "r", "!">>}

\* a response of Solution 2, with the request it answers
Response2(route, request, status, body) ==
    [route |-> route, request |-> request, status |-> status, body |-> body]

\* the 500 answer of POST /query and POST /initialize; its error text is the
\* message of the caught value or the route's default, and is left out here
Failed2(route, request) == Response2(route, request.request, 500, [success |-> FALSE])

\* a request whose await of initialize() has returned, pdf being the
\* PDFService by then: POST /initialize answers; query() starts fileSearch and
\* webSearch, where search() throws at getVectorStore without a vector store
Proceed(c, request, pdf) ==
    IF request.kind = "initialize"
    THEN /\ resp' = Response2("initialize2", request.request, 200,
                              [success |-> TRUE,
                               message |-> "RAG Service initialized successfully"])
         /\ reqs2' = [reqs2 EXCEPT ![c] = IdleRequest]
    ELSE IF ~pdf.isInitialized \/ pdf.vectorStore = 0
    THEN /\ resp' = Failed2("query2", request)
         /\ reqs2' = [reqs2 EXCEPT ![c] = IdleRequest]
    ELSE /\ reqs2' = [reqs2 EXCEPT ![c] =
                         [request EXCEPT !.pc = "searching",
                                         !.fileSearchStarted = TRUE,
                                         !.webSearchStarted = TRUE]]
         /\ UNCHANGED resp

\* RAGService.initialize up to its first await, for a request that found
\* isInitialized false (callers check it; initialize() checks it again)
Initialize(c, request) ==
    IF ragService.isInitialized
    THEN /\ Proceed(c, request, pdfService)
         /\ UNCHANGED <<ragService, pdfService>>
    ELSE IF pdfService.isInitialized
    THEN /\ ragService' = [ragService EXCEPT !.llm = @ + 1, !.tavilySearch = @ + 1,
                                             !.isInitialized = TRUE]
         /\ Proceed(c, request, pdfService)
         /\ UNCHANGED pdfService
    ELSE \* loadDefaultPDF -> loadPDF -> checkSupabaseDataExists -> initializeSupabase
         /\ ragService' = [ragService EXCEPT !.llm = @ + 1, !.tavilySearch = @ + 1]
         /\ pdfService' = [pdfService EXCEPT !.supabaseClient = TRUE]
         /\ reqs2' = [reqs2 EXCEPT ![c] = [request EXCEPT !.pc = "checking"]]
         /\ UNCHANGED resp

\* the request record of ragService.query or ragService.initialize
Request2(kind, request, query, threadId, time) ==
    [pc |-> "idle", kind |-> kind, request |-> request, query |-> query,
     threadId |-> threadId, startTime |-> time,
     fileSearchStarted |-> FALSE, webSearchStarted |-> FALSE,
     fileSearchResults |-> <<>>, webSearchResults |-> <<>>, tavilyThrew |-> FALSE]

\* POST /api/solution2/query, up to its first await
Query2Request(c, query, threadId) ==
    LET request == [query |-> query, threadId |-> threadId,
                    before |-> getConversationSummary2(conversations2, orDefault(threadId))]
        finalThreadId == orDefault(threadId)
        threadIdValidation == validateThreadId(finalThreadId)
        sanitizedQuery == sanitizeQuery(query.text)
        call == Request2("query", request, sanitizedQuery, finalThreadId, now)
    IN /\ resp = NoResponse
       /\ reqs2[c].pc = "idle"
       /\ started2 < MaxQueries
       /\ started2' = started2 + 1
       /\ IF ~query.isString \/ query.text = <<>> \/ Len(trim(query.text)) = 0
          THEN /\ resp' = Response2("query2", request, 400,
                                    [success |-> FALSE, error |-> "Query cannot be empty"])
               /\ UNCHANGED <<reqs2, ragService, pdfService>>
          ELSE IF ~threadIdValidation.valid
          THEN /\ resp' = Response2("query2", request, 400,
                                    [success |-> FALSE, error |-> threadIdValidation.error])
               /\ UNCHANGED <<reqs2, ragService, pdfService>>
          ELSE Initialize(c, call)
       /\ UNCHANGED <<conversations2, saved2, now, state1, stateScripts, stateAgent>>

\* POST /api/solution2/initialize, up to its first await
Initialize2Request(c) ==
    /\ resp = NoResponse
    /\ reqs2[c].pc = "idle"
    /\ started2 < MaxQueries
    /\ started2' = started2 + 1
    /\ Initialize(c, Request2("initialize", <<>>, <<>>, <<>>, now))
    /\ UNCHANGED <<conversations2, saved2, now, state1, stateScripts, stateAgent>>

\* Supabase answers the count of checkSupabaseDataExists (an error or a count
\* of 0 is hasData = FALSE, and loadPDF throws); with data loadPDF goes on to
\* initializeEmbeddings and awaits SupabaseVectorStore.fromExistingIndex
CheckReturns(c, hasData) ==
    /\ resp = NoResponse
    /\ reqs2[c].pc = "checking"
    /\ IF hasData
       THEN /\ pdfService' = [pdfService EXCEPT !.embeddings = TRUE]
            /\ reqs2' = [reqs2 EXCEPT ![c].pc = "connecting"]
            /\ UNCHANGED resp
       ELSE /\ resp' = Failed2(IF reqs2[c].kind = "query" THEN "query2" ELSE "initialize2",
                               reqs2[c])
            /\ reqs2' = [reqs2 EXCEPT ![c] = IdleRequest]
            /\ UNCHANGED pdfService
    /\ UNCHANGED <<ragService, conversations2, started2, saved2, now, state1, stateScripts, stateAgent>>

\* fromExistingIndex returns the vector store, or fails: loadPDF stores it,
\* initialize() sets isInitialized, and the caller goes on
ConnectReturns(c, ok) ==
    /\ resp = NoResponse
    /\ reqs2[c].pc = "connecting"
    /\ IF ok
       THEN LET pdf == [pdfService EXCEPT !.vectorStore = @ + 1, !.isInitialized = TRUE]
            IN /\ pdfService' = pdf
               /\ ragService' = [ragService EXCEPT !.isInitialized = TRUE]
               /\ Proceed(c, reqs2[c], pdf)
       ELSE /\ resp' = Failed2(IF reqs2[c].kind = "query" THEN "query2" ELSE "initialize2",
                               reqs2[c])
            /\ reqs2' = [reqs2 EXCEPT ![c] = IdleRequest]
            /\ UNCHANGED <<ragService, pdfService>>
    /\ UNCHANGED <<conversations2, started2, saved2, now, state1, stateScripts, stateAgent>>

\* both searches of client c have returned: query() awaits generateAnswer,
\* which builds the context and invokes the chain
SearchesDone(c, fileSearchResults, webSearchResults, threw) ==
    /\ reqs2' = [reqs2 EXCEPT ![c].pc = "generating",
                              ![c].fileSearchResults = <<fileSearchResults>>,
                              ![c].webSearchResults = <<webSearchResults>>,
                              ![c].tavilyThrew = threw]
    /\ UNCHANGED resp

\* the retriever answers pdfService.search for client c, or fails: fileSearch
\* rethrows, Promise.all rejects, and the route answers 500
FileSearchReturns2(c) ==
    /\ resp = NoResponse
    /\ reqs2[c].pc = "searching"
    /\ reqs2[c].fileSearchResults = <<>>
    /\ \/ \E docs \in Retrieved :
            LET results == fileSearch(search(docs, reqs2[c].query))
            IN IF reqs2[c].webSearchResults # <<>>
               THEN SearchesDone(c, results, reqs2[c].webSearchResults[1], reqs2[c].tavilyThrew)
               ELSE /\ reqs2' = [reqs2 EXCEPT ![c].fileSearchResults = <<results>>]
                    /\ UNCHANGED resp
       \/ /\ resp' = Failed2("query2", reqs2[c])
          /\ reqs2' = [reqs2 EXCEPT ![c] = IdleRequest]
    /\ UNCHANGED <<ragService, pdfService, conversations2, started2, saved2, now,
                   state1, stateScripts, stateAgent>>

\* the Tavily tool answers the web search of client c, or throws: webSearch
\* catches that and returns no results (tavilyThrew records that it threw)
WebSearchReturns2(c) ==
    /\ resp = NoResponse
    /\ reqs2[c].pc = "searching"
    /\ reqs2[c].webSearchResults = <<>>
    /\ \E output \in TavilyOutputs :
          LET results == webSearch(output)
          IN IF reqs2[c].fileSearchResults # <<>>
             THEN SearchesDone(c, reqs2[c].fileSearchResults[1], results, output.threw)
             ELSE /\ reqs2' = [reqs2 EXCEPT ![c].webSearchResults = <<results>>,
                                            ![c].tavilyThrew = output.threw]
                  /\ UNCHANGED resp
    /\ UNCHANGED <<ragService, pdfService, conversations2, started2, saved2, now,
                   state1, stateScripts, stateAgent>>

\* the LLM chain answers for client c, or fails: generateAnswer counts the
\* usage, query() builds the result and the route sends it.  Nothing on this
\* path calls memoryService.saveResponse.
AnswerReturns(c) ==
    /\ resp = NoResponse
    /\ reqs2[c].pc = "generating"
    /\ \/ \E answer \in Answers :
            LET answerResult == generateAnswer(answer, reqs2[c].fileSearchResults[1])
                result == ragQueryResult(answerResult, reqs2[c].fileSearchResults[1],
                                         reqs2[c].webSearchResults[1],
                                         reqs2[c].startTime, now)
            IN /\ ragService' = [ragService EXCEPT !.usageCounts.paid = @ + 1]
               /\ resp' = Response2("query2", reqs2[c].request, 200,
                                    [success |-> TRUE,
                                     threadId |-> reqs2[c].threadId,
                                     query |-> reqs2[c].query,
                                     context |-> answerResult.context,
                                     tavilyThrew |-> reqs2[c].tavilyThrew,
                                     data |-> [fileSearchWithLLM |-> result.fileSearchWithLLM,
                                               webSearch |-> result.webSearch,
                                               model |-> result.fileSearchWithLLM.model,
                                               usage |-> result.usage,
                                               responseTime |-> result.responseTime]])
       \/ /\ resp' = Failed2("query2", reqs2[c])
          /\ UNCHANGED ragService
    /\ reqs2' = [reqs2 EXCEPT ![c] = IdleRequest]
    /\ UNCHANGED <<pdfService, conversations2, started2, saved2, now, state1, stateScripts, stateAgent>>

\* GET /api/solution2/history/:threadId?limit=
History2Request(threadId, limit) ==
    LET validation == validateThreadId(threadId)
        request == [threadId |-> threadId, limit |-> limit]
    IN /\ resp = NoResponse
       /\ resp' =
            IF ~validation.valid
            THEN Response2("history2", request, 400,
                           [success |-> FALSE, error |-> validation.error])
            ELSE Response2("history2", request, 200,
                           [success |-> TRUE, threadId |-> threadId,
                            summary |-> getConversationSummary2(conversations2, threadId),
                            history |-> getHistory2(conversations2, threadId,
                                                    limitArgument(limit))])
       /\ UNCHANGED <<state2, now, state1, stateScripts, stateAgent>>

\* DELETE /api/solution2/history/:threadId
ClearHistory2Request(threadId) ==
    LET validation == validateThreadId(threadId)
        request == [threadId |-> threadId, held |-> threadId \in DOMAIN conversations2]
        cleared == clearHistory2(conversations2, threadId)
    IN /\ resp = NoResponse
       /\ IF ~validation.valid
          THEN /\ resp' = Response2("clear2", request, 400,
                                    [success |-> FALSE, error |-> validation.error])
               /\ UNCHANGED <<conversations2, saved2>>
          ELSE /\ conversations2' = cleared.conversations
               /\ saved2' = [saved2 EXCEPT ![threadId] = <<>>]
               /\ resp' = Response2("clear2", request, 200,
                                    [success |-> TRUE, returned |-> cleared.returned,
                                     message |-> IF cleared.returned
                                                 THEN "History cleared successfully"
                                                 ELSE "No history found for this thread"])
       /\ UNCHANGED <<ragService, pdfService, reqs2, started2, now, state1, stateScripts, stateAgent>>

\* Solution 2's server: its routes, the remote services' answers, the clock
Next2 ==
    \/ \E c \in Clients, query \in QueryBodies, threadId \in ThreadIdBodies :
          Query2Request(c, query, threadId)
    \/ \E c \in Clients : Initialize2Request(c)
    \/ \E c \in Clients, hasData \in BOOLEAN : CheckReturns(c, hasData)
    \/ \E c \in Clients, ok \in BOOLEAN : ConnectReturns(c, ok)
    \/ \E c \in Clients : FileSearchReturns2(c)
    \/ \E c \in Clients : WebSearchReturns2(c)
    \/ \E c \in Clients : AnswerReturns(c)
    \/ \E threadId \in ThreadIdParams, limit \in LimitParams : History2Request(threadId, limit)
    \/ \E threadId \in ThreadIdParams : ClearHistory2Request(threadId)
    \/ ResponseSent
    \/ Tick

(* ============== the save methods of the three memory services ========== *)

\* the n-th question asked on a thread and its answer
Question(n) == <<"q">> \o [i \in 1..n |-> "?"]
Answer(n) == <<"a">> \o [i \in 1..n |-> "!"]

\* a direct call of Solution 1's memoryService.saveResponse, the caller
\* numbering the responses of a thread
SaveResponse(threadId) ==
    LET n == Len(saved[threadId]) + 1
        usage == queryResult([id |-> FileResponseId(n), output_text |-> "file answer",
                              usage |-> FileUsage(n)],
                             [id |-> WebResponseId(n), output_text |-> "web answer",
                              usage |-> WebUsage(n)], now).usage
    IN /\ n <= MaxDirectSaves
       /\ conversations' = saveResponse(conversations, threadId, FileResponseId(n),
                                        Question(n), "file answer", "web answer", usage, now)
       /\ saved' = [saved EXCEPT ![threadId] =
                       Append(@, [query |-> Question(n), fileAnswer |-> "file answer",
                                  webAnswer |-> "web answer", timestamp |-> now,
                                  usage |-> usage])]
       /\ UNCHANGED <<vectorStoreId, reqs, nextId, nextWebId, started, resp, now,
                      state2, stateAgent, stateScripts>>

\* a direct call of Solution 2's memoryService.saveResponse
SaveResponse2(threadId) ==
    LET n == Len(saved2[threadId]) + 1
        usage == [inputTokens |-> n, outputTokens |-> 2 * n, cost |-> estimatedCost2(n, 2 * n)]
        metadata == [model |-> CHEAPEST, responseTime |-> 0]
    IN /\ n <= MaxDirectSaves
       /\ conversations2' = saveResponse2(conversations2, threadId, Question(n), Answer(n),
                                          "web answer", usage, metadata, now)
       /\ saved2' = [saved2 EXCEPT ![threadId] =
                        Append(@, [query |-> Question(n), fileAnswer |-> Answer(n),
                                   webAnswer |-> "web answer", timestamp |-> now,
                                   usage |-> usage, model |-> metadata.model,
                                   responseTime |-> metadata.responseTime])]
       /\ UNCHANGED <<ragService, pdfService, reqs2, started2, resp, now, state1, stateScripts, stateAgent>>

\* a call of the agent memory's saveConversation, as AgentService.query makes
\* it after the agent has answered
SaveConversation(threadId) ==
    LET n == Len(agentSaved[threadId]) + 1
    IN /\ n <= HistoryLimit + ExtraAgentSaves
       /\ agentConversations' = saveConversation(agentConversations, threadId,
                                                 Question(n), Answer(n), now)
       /\ agentSaved' = [agentSaved EXCEPT ![threadId] =
                            Append(@, [query |-> Question(n), answer |-> Answer(n),
                                       timestamp |-> now])]
       /\ UNCHANGED <<agentService, agentReqs, agentStarted, state1, stateScripts, resp, now, state2>>

\* direct calls of the three clear methods
ClearHistory(threadId) ==
    /\ conversations' = clearHistory(conversations, threadId).conversations
    /\ saved' = [saved EXCEPT ![threadId] = <<>>]
    /\ UNCHANGED <<vectorStoreId, reqs, nextId, nextWebId, started, resp, now, state2, stateAgent, stateScripts>>

ClearHistory2(threadId) ==
    /\ conversations2' = clearHistory2(conversations2, threadId).conversations
    /\ saved2' = [saved2 EXCEPT ![threadId] = <<>>]
    /\ UNCHANGED <<ragService, pdfService, reqs2, started2, resp, now, state1, stateScripts, stateAgent>>

ClearConversation(threadId) ==
    /\ agentConversations' = clearConversation(agentConversations, threadId)
    /\ agentSaved' = [agentSaved EXCEPT ![threadId] = <<>>]
    /\ UNCHANGED <<agentService, agentReqs, agentStarted, state1, stateScripts, resp, now, state2>>

NextSaves ==
    \/ \E threadId \in ThreadIds : SaveResponse(threadId)
    \/ \E threadId \in ThreadIds : SaveResponse2(threadId)
    \/ \E threadId \in ThreadIds : SaveConversation(threadId)
    \/ \E threadId \in ThreadIds : ClearHistory(threadId)
    \/ \E threadId \in ThreadIds : ClearHistory2(threadId)
    \/ \E threadId \in ThreadIds : ClearConversation(threadId)

(* ===================== the agent: agentService.js ====================== *)

\* nothing stored: the lastSearchResults object AgentService starts with, {}
NoSearchResults == [fileSearch |-> <<>>, webSearch |-> <<>>]

\* the value a call of agentService.query settles with; call is the number
\* of the call
Settled(request, resolved, body) ==
    [route |-> "agentQuery", request |-> request, status |-> 0,
     resolved |-> resolved, body |-> body]

\* agentService.query(query, threadId) up to its first await: initialize()
\* awaits pdfService.loadDefaultPDF() when the PDF service is not connected,
\* else creates the tools and the two agents; then query() invokes the
\* Gemini agent
AgentQuery(c, threadId) ==
    LET call == [pc |-> "agent", call |-> agentStarted + 1,
                 query |-> Question(agentStarted + 1), threadId |-> threadId,
                 pdfToolCalled |-> FALSE, webToolCalled |-> FALSE]
    IN /\ resp = NoResponse
       /\ agentReqs[c].pc = "idle"
       /\ agentStarted < MaxQueries
       /\ agentStarted' = agentStarted + 1
       /\ IF ~agentService.isInitialized /\ ~pdfService.isInitialized
          THEN /\ agentReqs' = [agentReqs EXCEPT ![c] = [call EXCEPT !.pc = "loading"]]
               /\ UNCHANGED agentService
          ELSE /\ agentReqs' = [agentReqs EXCEPT ![c] = call]
               /\ agentService' = [agentService EXCEPT !.isInitialized = TRUE]
       /\ UNCHANGED <<agentConversations, agentSaved, resp, now, state1, stateScripts, state2>>

\* pdfService.loadDefaultPDF() settles for the initialize() of caller c (its
\* own steps are those of CheckReturns and ConnectReturns): connected,
\* initialize() creates tools and agents and query() invokes the Gemini agent;
\* failed, initialize() and query() throw
AgentLoadReturns(c, ok) ==
    /\ resp = NoResponse
    /\ agentReqs[c].pc = "loading"
    /\ IF ok
       THEN /\ pdfService' = [pdfService EXCEPT !.supabaseClient = TRUE, !.embeddings = TRUE,
                                                !.vectorStore = @ + 1, !.isInitialized = TRUE]
            /\ agentService' = [agentService EXCEPT !.isInitialized = TRUE]
            /\ agentReqs' = [agentReqs EXCEPT ![c].pc = "agent"]
            /\ UNCHANGED resp
       ELSE /\ resp' = Settled(agentReqs[c], FALSE, <<>>)
            /\ agentReqs' = [agentReqs EXCEPT ![c] = IdleRequest]
            /\ UNCHANGED <<pdfService, agentService>>
    /\ UNCHANGED <<agentConversations, agentSaved, agentStarted, now, state1, stateScripts,
                   ragService, conversations2, reqs2, started2, saved2>>

\* the agent running for caller c has called the pdf_search tool, and
\* pdfService.search has returned: the tool stores what it found in
\* lastSearchResults.fileSearch; or search has thrown, and the tool stores
\* nothing
PdfToolReturns(c) ==
    /\ resp = NoResponse
    /\ agentReqs[c].pc \in {"agent", "fallback"}
    /\ ~agentReqs[c].pdfToolCalled
    /\ agentReqs' = [agentReqs EXCEPT ![c].pdfToolCalled = TRUE]
    /\ \/ \E docs \in Retrieved :
            agentService' =
                [agentService EXCEPT !.lastSearchResults.fileSearch =
                    <<[call |-> agentReqs[c].call, query |-> agentReqs[c].query,
                       documents |-> search(docs, agentReqs[c].query).documents,
                       timestamp |-> now]>>]
       \/ UNCHANGED agentService
    /\ UNCHANGED <<agentConversations, agentSaved, agentStarted, resp, now, state1, stateScripts, state2>>

\* the agent running for caller c has called the web search tool, and Tavily
\* has answered: the tool stores the parsed results in
\* lastSearchResults.webSearch; or Tavily has thrown, and it stores nothing
WebToolReturns(c) ==
    /\ resp = NoResponse
    /\ agentReqs[c].pc \in {"agent", "fallback"}
    /\ ~agentReqs[c].webToolCalled
    /\ agentReqs' = [agentReqs EXCEPT ![c].webToolCalled = TRUE]
    /\ \E output \in TavilyOutputs :
          IF output.threw
          THEN UNCHANGED agentService
          ELSE agentService' =
                  [agentService EXCEPT !.lastSearchResults.webSearch =
                      <<[call |-> agentReqs[c].call, query |-> agentReqs[c].query,
                         results |-> webSearch(output).results, timestamp |-> now]>>]
    /\ UNCHANGED <<agentConversations, agentSaved, agentStarted, resp, now, state1, stateScripts, state2>>

\* the agent invoked for caller c fails: query() falls back from the Gemini
\* agent to the OpenAI agent; when that fails too query() throws, leaving
\* lastSearchResults as it is
AgentFails(c) ==
    /\ resp = NoResponse
    /\ agentReqs[c].pc \in {"agent", "fallback"}
    /\ IF agentReqs[c].pc = "agent"
       THEN /\ agentReqs' = [agentReqs EXCEPT ![c].pc = "fallback",
                                              ![c].pdfToolCalled = FALSE,
                                              ![c].webToolCalled = FALSE]
            /\ UNCHANGED resp
       ELSE /\ resp' = Settled(agentReqs[c], FALSE, <<>>)
            /\ agentReqs' = [agentReqs EXCEPT ![c] = IdleRequest]
    /\ UNCHANGED <<agentConversations, agentSaved, agentService, agentStarted, now,
                   state1, stateScripts, state2>>

\* the agent invoked for caller c answers: query() reads lastSearchResults,
\* saves the conversation, resets lastSearchResults and returns
AgentAnswers(c) ==
    LET answer == Answer(agentReqs[c].call)
    IN /\ resp = NoResponse
       /\ agentReqs[c].pc \in {"agent", "fallback"}
       /\ agentConversations' = saveConversation(agentConversations, agentReqs[c].threadId,
                                                 agentReqs[c].query, answer, now)
       /\ agentSaved' = [agentSaved EXCEPT ![agentReqs[c].threadId] =
                            Append(@, [query |-> agentReqs[c].query, answer |-> answer,
                                       timestamp |-> now])]
       /\ agentService' = [agentService EXCEPT !.lastSearchResults = NoSearchResults]
       /\ resp' = Settled(agentReqs[c], TRUE,
                          [answer |-> answer,
                           model |-> IF agentReqs[c].pc = "agent"
                                     THEN "gemini-2.0-flash-exp" ELSE CHEAPEST,
                           cost |-> IF agentReqs[c].pc = "agent" THEN "free" ELSE "paid",
                           fallback |-> agentReqs[c].pc = "fallback",
                           threadId |-> agentReqs[c].threadId,
                           searchResults |-> agentService.lastSearchResults])
       /\ agentReqs' = [agentReqs EXCEPT ![c] = IdleRequest]
       /\ UNCHANGED <<agentStarted, now, state1, stateScripts, state2>>

\* callers of agentService.query, the tools and the models
NextAgent ==
    \/ \E c \in Clients, threadId \in ThreadIds : AgentQuery(c, threadId)
    \/ \E c \in Clients, ok \in BOOLEAN : AgentLoadReturns(c, ok)
    \/ \E c \in Clients : PdfToolReturns(c)
    \/ \E c \in Clients : WebToolReturns(c)
    \/ \E c \in Clients : AgentFails(c)
    \/ \E c \in Clients : AgentAnswers(c)
    \/ ResponseSent

(* ============ the Gemini-first RAG service (geminiLLM, openaiLLM) ====== *)

GEMINI_MODEL == "gemini-2.0-flash-exp"

\* the model behind each of the two LLM objects initialize() creates
ModelOf(llm) == IF llm = "geminiLLM" THEN GEMINI_MODEL ELSE CHEAPEST

\* a generateAnswer that labels every answer as Gemini's
generateAnswerWithFallback_alwaysFree(answer, fileSearchResults, fellBack) ==
    [answer |-> answer, usedModel |-> GEMINI_MODEL, cost |-> "free", fallback |-> FALSE,
     usage |-> <<>>]

\* generateAnswer of the Gemini-first service: what it returns for the answer
\* of the first invocation of the chain (fellBack FALSE) and for the answer of
\* the second one, made after the first threw (fellBack TRUE); usage is null
\* (<<>>) unless it fell back
generateAnswerWithFallback(answer, fileSearchResults, fellBack) ==
    IF ~fellBack
    THEN [answer |-> answer, usedModel |-> GEMINI_MODEL, cost |-> "free",
          fallback |-> FALSE, usage |-> <<>>]
    ELSE [answer |-> answer, usedModel |-> CHEAPEST, cost |-> "paid", fallback |-> TRUE,
          usage |-> <<generateAnswer(answer, fileSearchResults).usage>>]

\* getUsageStats()
getUsageStats(service) ==
    [free |-> [count |-> service.usageCounts.free, model |-> GEMINI_MODEL],
     paid |-> [count |-> service.usageCounts.paid, model |-> CHEAPEST]]

\* the value a call of the service's query settles with
SettledQuery(request, resolved, body) ==
    [route |-> "geminiQuery", request |-> request, status |-> 0,
     resolved |-> resolved, body |-> body]

\* query(query) up to its first await: initialize() when the service is not
\* initialized (it creates the two LLMs, makes Gemini the current one, and
\* awaits pdfService.loadDefaultPDF() unless the PDF service is connected),
\* then the two searches start
GeminiQuery(c) ==
    LET call == [pc |-> "searching", call |-> geminiStarted + 1,
                 query |-> Question(geminiStarted + 1)]
    IN /\ resp = NoResponse
       /\ geminiReqs[c].pc = "idle"
       /\ geminiStarted < MaxQueries
       /\ geminiStarted' = geminiStarted + 1
       /\ IF geminiService.isInitialized
          THEN /\ geminiReqs' = [geminiReqs EXCEPT ![c] = call]
               /\ UNCHANGED geminiService
          ELSE IF pdfService.isInitialized
          THEN /\ geminiReqs' = [geminiReqs EXCEPT ![c] = call]
               /\ geminiService' = [geminiService EXCEPT !.llm = "geminiLLM",
                                                         !.isInitialized = TRUE]
          ELSE /\ geminiReqs' = [geminiReqs EXCEPT ![c] = [call EXCEPT !.pc = "loading"]]
               /\ geminiService' = [geminiService EXCEPT !.llm = "geminiLLM"]
       /\ UNCHANGED <<geminiAnswered, fileWait, page, resp, now, state1, state2, stateAgent>>

\* pdfService.loadDefaultPDF() settles for the initialize() of caller c:
\* connected, the service is initialized and query() starts its searches;
\* failed, initialize() and query() throw
GeminiLoadReturns(c, ok) ==
    /\ resp = NoResponse
    /\ geminiReqs[c].pc = "loading"
    /\ IF ok
       THEN /\ pdfService' = [pdfService EXCEPT !.supabaseClient = TRUE, !.embeddings = TRUE,
                                                !.vectorStore = @ + 1, !.isInitialized = TRUE]
            /\ geminiService' = [geminiService EXCEPT !.isInitialized = TRUE]
            /\ geminiReqs' = [geminiReqs EXCEPT ![c].pc = "searching"]
            /\ UNCHANGED resp
       ELSE /\ resp' = SettledQuery(geminiReqs[c], FALSE, <<>>)
            /\ geminiReqs' = [geminiReqs EXCEPT ![c] = IdleRequest]
            /\ UNCHANGED <<pdfService, geminiService>>
    /\ UNCHANGED <<geminiStarted, geminiAnswered, fileWait, page, now, state1, stateAgent,
                   ragService, conversations2, reqs2, started2, saved2>>

\* Promise.all of fileSearch and webSearch settles for caller c. Resolved,
\* query() calls generateAnswer, which pipes the prompt into the service's
\* current LLM (this.llm as it is now), then makes Gemini the current one and
\* invokes the chain; fileSearch rejected, query() throws
GeminiSearchesReturn(c) ==
    /\ resp = NoResponse
    /\ geminiReqs[c].pc = "searching"
    /\ \/ \E docs \in Retrieved, output \in TavilyOutputs :
            /\ geminiReqs' = [geminiReqs EXCEPT ![c] =
                    [pc |-> "invoking", call |-> geminiReqs[c].call,
                     query |-> geminiReqs[c].query,
                     fileSearchResults |-> fileSearch(search(docs, geminiReqs[c].query)),
                     webSearchResults |-> webSearch(output),
                     chain |-> geminiService.llm, fellBack |-> FALSE]]
            /\ geminiService' = [geminiService EXCEPT !.llm = "geminiLLM"]
            /\ UNCHANGED resp
       \/ /\ resp' = SettledQuery(geminiReqs[c], FALSE, <<>>)
          /\ geminiReqs' = [geminiReqs EXCEPT ![c] = IdleRequest]
          /\ UNCHANGED geminiService
    /\ UNCHANGED <<geminiStarted, geminiAnswered, fileWait, page, now, state1, state2, stateAgent>>

\* the first invocation of caller c's chain throws: generateAnswer makes
\* OpenAI the current LLM and invokes the same chain again
GeminiInvokeThrows(c) ==
    /\ resp = NoResponse
    /\ geminiReqs[c].pc = "invoking"
    /\ ~geminiReqs[c].fellBack
    /\ geminiService' = [geminiService EXCEPT !.llm = "openaiLLM"]
    /\ geminiReqs' = [geminiReqs EXCEPT ![c].fellBack = TRUE]
    /\ UNCHANGED <<geminiStarted, geminiAnswered, fileWait, page, resp, now, state1, state2,
                   stateAgent>>

\* the second invocation of caller c's chain throws: generateAnswer and
\* query() throw
GeminiFallbackThrows(c) ==
    /\ resp = NoResponse
    /\ geminiReqs[c].pc = "invoking"
    /\ geminiReqs[c].fellBack
    /\ resp' = SettledQuery(geminiReqs[c], FALSE, <<>>)
    /\ geminiReqs' = [geminiReqs EXCEPT ![c] = IdleRequest]
    /\ UNCHANGED <<geminiService, geminiStarted, geminiAnswered, fileWait, page, now, state1,
                   state2, stateAgent>>

\* the LLM of caller c's chain answers, on the first invocation or on the
\* second: generateAnswer counts the use and returns, and query() returns its
\* result; producedBy records the model of the LLM that was invoked
GeminiAnswers(c) ==
    /\ resp = NoResponse
    /\ geminiReqs[c].pc = "invoking"
    /\ \E answer \in Answers :
          LET answerResult == generateAnswerWithFallback(answer,
                                  geminiReqs[c].fileSearchResults, geminiReqs[c].fellBack)
              result == ragQueryResult(answerResult, geminiReqs[c].fileSearchResults,
                                       geminiReqs[c].webSearchResults, now, now)
          IN resp' = SettledQuery(geminiReqs[c], TRUE,
                        [fileSearchWithLLM |-> result.fileSearchWithLLM,
                         webSearch |-> result.webSearch,
                         usage |-> answerResult.usage,
                         embeddingCost |-> geminiReqs[c].fileSearchResults.embeddingCost,
                         producedBy |-> ModelOf(geminiReqs[c].chain)])
    /\ geminiService' =
          IF geminiReqs[c].fellBack
          THEN [geminiService EXCEPT !.usageCounts.paid = @ + 1]
          ELSE [geminiService EXCEPT !.usageCounts.free = @ + 1]
    /\ geminiAnswered' =
          IF geminiReqs[c].chain = "geminiLLM"
          THEN [geminiAnswered EXCEPT !.free = @ + 1]
          ELSE [geminiAnswered EXCEPT !.paid = @ + 1]
    /\ geminiReqs' = [geminiReqs EXCEPT ![c] = IdleRequest]
    /\ UNCHANGED <<geminiStarted, fileWait, page, now, state1, state2, stateAgent>>

\* callers of the Gemini-first service's query, the searches and the LLMs
NextGemini ==
    \/ \E c \in Clients : GeminiQuery(c)
    \/ \E c \in Clients, ok \in BOOLEAN : GeminiLoadReturns(c, ok)
    \/ \E c \in Clients : GeminiSearchesReturn(c)
    \/ \E c \in Clients : GeminiInvokeThrows(c)
    \/ \E c \in Clients : GeminiFallbackThrows(c)
    \/ \E c \in Clients : GeminiAnswers(c)
    \/ ResponseSent

(* ================= waitForFileProcessing (upload scripts) ============== *)

\* waitForFileProcessing(vectorStoreId, fileId, maxAttempts) up to its first
\* await: the first poll is sent, unless maxAttempts is 0
WaitForFileProcessing(maxAttempts) ==
    /\ fileWait.pc = "idle"
    /\ fileWait' = loopHead([NotWaiting EXCEPT !.maxAttempts = maxAttempts], 0)
    /\ UNCHANGED <<stateGemini, page, resp, now, state1, state2, stateAgent>>

\* the poll in flight is answered: 'completed' returns, 'failed' throws
\* inside the try block, retrieve's own error is thrown there too, and any
\* other status starts the 2 s timer
RetrieveReturns(fileStatus) ==
    LET polled == [fileWait EXCEPT !.polls = Append(@, fileStatus)]
    IN /\ fileWait.pc = "polling"
       /\ fileWait' =
            IF fileStatus.threw THEN catchBlock(polled, RetrieveError)
            ELSE IF fileStatus.status = "completed" THEN [polled EXCEPT !.pc = "returned"]
            ELSE IF fileStatus.status = "failed"
                 THEN catchBlock(polled, ProcessingFailed(fileStatus))
            ELSE [polled EXCEPT !.pc = "sleeping"]
       /\ UNCHANGED <<stateGemini, page, resp, now, state1, state2, stateAgent>>

\* the 2 s timer fires: the loop goes on with the next attempt
TimerFires ==
    /\ fileWait.pc = "sleeping"
    /\ fileWait' = loopHead(fileWait, fileWait.i + 1)
    /\ now' = now + 2000
    /\ UNCHANGED <<stateGemini, page, resp, state1, state2, stateAgent>>

\* the numbers of attempts the wait is called with
AttemptLimits == 0..MaxAttemptsTried

NextWait ==
    \/ \E maxAttempts \in AttemptLimits : WaitForFileProcessing(maxAttempts)
    \/ \E fileStatus \in FileStatuses : RetrieveReturns(fileStatus)
    \/ TimerFires

(* ============== the error handlers' strategies and backoff ============= *)

\* String.prototype.includes
includes(s, sub) ==
    \E i \in 0..(Len(s) - Len(sub)) : \A j \in 1..Len(sub) : s[i + j] = sub[j]

\* 2^n, as Math.pow(2, n) for a count n
pow2(n) == 2 ^ n

min(a, b) == IF a < b THEN a ELSE b

\* the cap of the backoff delay in Solution 1 (maxDelay) and in Solution 2
BaseDelay == 1000
MaxDelay == 60000
MaxDelay2 == 30000
\* the default attemptNumber of Solution 2's calculateBackoff
DefaultAttemptNumber == 1

\* a backoff without the cap
calculateBackoff_uncapped(retryCount) == BaseDelay * pow2(retryCount)

\* Solution 1's ErrorHandler.calculateBackoff(retryCount)
calculateBackoff(retryCount) == min(BaseDelay * pow2(retryCount), MaxDelay)

\* Solution 2's ErrorHandler.calculateBackoff(attemptNumber = 1)
calculateBackoff2(attemptNumber) == min(1000 * pow2(attemptNumber), MaxDelay2)

\* Solution 1's ErrorHandler.handleAPIError(error, context); retryCount is
\* context.retryCount || 0
handleAPIError(error, retryCount) ==
    IF error.status = 429
    THEN [retry |-> TRUE, delay |-> calculateBackoff(retryCount),
          message |-> "Rate limit exceeded. Retrying with backoff..."]
    ELSE IF error.status = 401
    THEN [retry |-> FALSE, message |-> "Authentication failed. Please check your API key."]
    ELSE [retry |-> TRUE, delay |-> 1000, message |-> "API request failed. Retrying..."]

\* Solution 2's ErrorHandler.getErrorType(error): the words of the message
\* are looked at before the status
getErrorType2(error) ==
    IF includes(error.message, <<"q", "u", "o", "t", "a">>)
       \/ includes(error.message, <<"l", "i", "m", "i", "t">>)
    THEN "QUOTA_EXCEEDED"
    ELSE IF includes(error.message, <<"f", "i", "l", "e">>)
            \/ includes(error.message, <<"P", "D", "F">>)
    THEN "FILE_ERROR"
    ELSE IF includes(error.message, <<"v", "a", "l", "i", "d", "a", "t", "i", "o", "n">>)
            \/ includes(error.message, <<"i", "n", "v", "a", "l", "i", "d">>)
    THEN "VALIDATION_ERROR"
    ELSE IF error.status # 0 \/ error.response
    THEN "API_ERROR"
    ELSE "GENERIC_ERROR"

\* Solution 2's handleAPIError, handleQuotaError, handleFileError,
\* handleValidationError and handleGenericError
handleAPIError2(error) ==
    IF error.status = 429
    THEN [message |-> "API rate limit exceeded, please retry later", retry |-> TRUE,
          delay |-> calculateBackoff2(DefaultAttemptNumber)]
    ELSE [message |-> "API call failed, please retry later", retry |-> TRUE]

handleQuotaError ==
    [message |-> "Free service temporarily unavailable, switched to backup service",
     usePaidService |-> TRUE, retry |-> TRUE]

handleFileError ==
    [message |-> "PDF file processing failed, please check file format", retry |-> FALSE]

handleValidationError2(error) ==
    [message |-> IF error.message # <<>> THEN error.message
                 ELSE <<"Input validation failed">>,
     retry |-> FALSE]

handleGenericError ==
    [message |-> "Unknown error occurred, please retry later", retry |-> TRUE]

\* Solution 2's ErrorHandler.handle(error, context)
handle2(error) ==
    LET type == getErrorType2(error)
    IN CASE type = "API_ERROR" -> handleAPIError2(error)
         [] type = "QUOTA_EXCEEDED" -> handleQuotaError
         [] type = "FILE_ERROR" -> handleFileError
         [] type = "VALIDATION_ERROR" -> handleValidationError2(error)
         [] OTHER -> handleGenericError

\* the errors handed to the handlers: with or without an HTTP status (0:
\* none), with or without a response, and with one of these messages (<<>>:
\* none)
ErrorMessages ==
    {<<>>,
     <<"R", "a", "t", "e", " ", "l", "i", "m", "i", "t", " ", "r", "e", "a", "c", "h", "e", "d", " ", "f", "o", "r", " ", "g", "p", "t", "-", "4", "o", "-", "m", "i", "n", "i">>,
     <<"T", "o", "o", " ", "M", "a", "n", "y", " ", "R", "e", "q", "u", "e", "s", "t", "s">>,
     <<"Y", "o", "u", " ", "e", "x", "c", "e", "e", "d", "e", "d", " ", "y", "o", "u", "r", " ", "c", "u", "r", "r", "e", "n", "t", " ", "q", "u", "o", "t", "a">>,
     <<"R", "a", "t", "e", " ", "L", "i", "m", "i", "t">>,
     <<"b", "a", "d", " ", "f", "i", "l", "e">>,
     <<"i", "n", "v", "a", "l", "i", "d", " ", "m", "o", "d", "e", "l">>,
     <<"P", "D", "F">>,
     <<"l", "i", "m", "i", "t">>}

HandledErrors ==
    [status : {0, 401, 429, 500}, response : BOOLEAN, message : ErrorMessages]

\* the retry counts handed to the backoff; absent is <<>>
RetryCounts == {<<>>} \cup {<<n>> : n \in 0..MaxRetryCount}

\* what a call of one of the handlers' methods returned
Returned(method, arguments, value) ==
    [route |-> method, request |-> arguments, status |-> 0, body |-> value]

\* ErrorHandler.handle(error, context) of Solution 2 is called
Handle2(error) ==
    /\ resp = NoResponse
    /\ resp' = Returned("handle2", error, handle2(error))
    /\ UNCHANGED <<state1, now, state2, stateAgent, stateScripts>>

\* ErrorHandler.handleAPIError(error, context) of Solution 1 is called, with
\* or without context.retryCount
HandleAPIError(error, retryCount) ==
    /\ resp = NoResponse
    /\ resp' = Returned("handleAPIError", [error |-> error, retryCount |-> retryCount],
                        handleAPIError(error, IF retryCount = <<>> THEN 0 ELSE retryCount[1]))
    /\ UNCHANGED <<state1, now, state2, stateAgent, stateScripts>>

\* ErrorHandler.calculateBackoff(retryCount) of Solution 1 is called
CalculateBackoff(retryCount) ==
    /\ resp = NoResponse
    /\ resp' = Returned("calculateBackoff", retryCount, calculateBackoff(retryCount))
    /\ UNCHANGED <<state1, now, state2, stateAgent, stateScripts>>

\* ErrorHandler.calculateBackoff(attemptNumber) of Solution 2 is called, with
\* or without the argument
CalculateBackoff2(attemptNumber) ==
    /\ resp = NoResponse
    /\ resp' = Returned("calculateBackoff2", attemptNumber,
                        calculateBackoff2(IF attemptNumber = <<>> THEN DefaultAttemptNumber
                                          ELSE attemptNumber[1]))
    /\ UNCHANGED <<state1, now, state2, stateAgent, stateScripts>>

NextErrors ==
    \/ \E error \in HandledErrors : Handle2(error)
    \/ \E error \in HandledErrors, retryCount \in RetryCounts :
          HandleAPIError(error, retryCount)
    \/ \E retryCount \in 0..MaxRetryCount : CalculateBackoff(retryCount)
    \/ \E attemptNumber \in RetryCounts : CalculateBackoff2(attemptNumber)
    \/ ResponseSent

(* ================== the front end: public/js/app.js ==================== *)

\* what the page's user types into queryInput
TypedQueries ==
    {<<>>, <<" ">>, <<"h", "e", "j", "?">>, [i \in 1..(MaxQueryLength + 1) |-> "a"]}

\* the text showLoading is called with by each button's handler
LoadingTextOf(button) ==
    IF button = "submitBtn1" THEN "Querying Solution 1 (OpenAI)..."
    ELSE IF button = "submitBtn2" THEN "Querying Solution 2 (Langchain)..."
    ELSE "Querying both solutions..."

Buttons == {"submitBtn1", "submitBtn2", "submitBtnBoth"}

\* the fetch of loadConfig1 settles: ok with success, ok without success,
\* not ok, or rejected (outcome "ok", "unsuccessful", "notOk", "rejected")
ConfigFetchReturns(outcome) ==
    /\ page.config = "loading"
    /\ page' =
         IF outcome = "ok"
         THEN [page EXCEPT !.config = "loaded", !.vectorStoreId = <<"vs_1">>,
                           !.vectorStoreStatus1 = "Ready"]
         ELSE IF outcome = "unsuccessful"
         THEN [page EXCEPT !.config = "unsuccessful"]
         ELSE [page EXCEPT !.config = "failed", !.vectorStoreStatus1 = "Error",
                           !.submitBtn1.disabled = TRUE,
                           !.submitBtnBoth.disabled = TRUE]
    /\ UNCHANGED <<state1, resp, now, state2, stateAgent, stateGemini, fileWait>>

\* a click on one of the three query buttons, which a disabled button does
\* not deliver, with query typed into the input
Click(button, query) ==
    /\ ~page[button].disabled
    /\ page' =
         IF queryError(query) # "" THEN [page EXCEPT !.alert = queryError(query)]
         ELSE IF page.isQuerying THEN page
         ELSE startQuerying(page, button, LoadingTextOf(button))
    /\ UNCHANGED <<state1, resp, now, state2, stateAgent, stateGemini, fileWait>>

\* Ctrl+Enter in the input: submitBtnBoth.click(), which a disabled button
\* ignores
CtrlEnter(query) ==
    /\ Click("submitBtnBoth", query)

\* the fetch of querySolution1 or querySolution2 settles: the answer or the
\* error is shown (outcome "ok", "unsuccessful", "failed"), and when no other
\* query of the click is pending its finally block runs
QueryFetchReturns(solution, outcome) ==
    LET shown == IF outcome = "unsuccessful" THEN page
                 ELSE IF solution = "solution1"
                 THEN [page EXCEPT !.answer1 = IF outcome = "ok" THEN "answer" ELSE "error"]
                 ELSE [page EXCEPT !.answer2 = IF outcome = "ok" THEN "answer" ELSE "error"]
        done == [shown EXCEPT !.pending = @ \ {solution}]
    IN /\ solution \in page.pending
       /\ page' = IF done.pending = {} THEN finallyBlock(done) ELSE done
       /\ UNCHANGED <<state1, resp, now, state2, stateAgent, stateGemini, fileWait>>

NextPage ==
    \/ \E outcome \in {"ok", "unsuccessful", "notOk", "rejected"} : ConfigFetchReturns(outcome)
    \/ \E button \in Buttons, query \in TypedQueries : Click(button, query)
    \/ \E query \in TypedQueries : CtrlEnter(query)
    \/ \E solution \in {"solution1", "solution2"}, outcome \in {"ok", "unsuccessful", "failed"} :
          QueryFetchReturns(solution, outcome)

(* ============================ specifications =========================== *)

\* Solution 1's server
Spec == Init /\ [][Next1]_vars
\* Solution 1's server left running, with nothing but its own routes: every
\* response is sent, every remote call returns, and time goes on; no client is
\* bound to send any request
NextRunning == Server1 \/ LongTick
SpecRunning ==
    /\ Init
    /\ [][NextRunning]_vars
    /\ WF_vars(ResponseSent)
    /\ WF_vars(LongTick)
    /\ \A c \in Clients : WF_vars(FileSearchReturns(c)) /\ WF_vars(WebSearchReturns(c))
                          /\ WF_vars(ConfigReturns(c))
\* the valid query of QueryBodies, and what is stored for it
VALID_QUERY == StringValue(<<" ", "a", " ", "\t", "b">>)
SANITIZED_QUERY == <<"a", " ", "b">>

\* further request bodies: a query of MaxQueryLength + 1 characters between
\* spaces, and thread ids with whitespace around a valid id
LongQuery == <<" ">> \o [i \in 1..(MaxQueryLength + 1) |-> "x"] \o <<" ">>
PaddedThreadIds == {<<" ", "t", "1">>, <<"t", "1", "\t">>}

\* Solution 1's server receiving those bodies as well
NextInputs ==
    \/ Server1
    \/ \E c \in Clients, threadId \in ThreadIdBodies :
          QueryRequest(c, StringValue(LongQuery), threadId)
    \/ \E c \in Clients, threadId \in PaddedThreadIds :
          QueryRequest(c, VALID_QUERY, threadId)
SpecInputs == Init /\ [][NextInputs]_vars

\* the front end's page
SpecPage == Init /\ [][NextPage]_vars
\* the error handlers, called directly
SpecErrors == Init /\ [][NextErrors]_vars
\* the upload script's wait for file processing
SpecWait == Init /\ [][NextWait]_vars
\* the same, where every poll is answered (the HTTP request settles) and the
\* 2 s timer fires
SpecWaitAnswered ==
    /\ SpecWait
    /\ WF_vars(\E fileStatus \in FileStatuses : RetrieveReturns(fileStatus))
    /\ WF_vars(TimerFires)
\* the Gemini-first RAG service, called directly
SpecGemini == Init /\ [][NextGemini]_vars
\* the agent, called directly
SpecAgent == Init /\ [][NextAgent]_vars
\* Solution 2's server
Spec2 == Init /\ [][Next2]_vars
\* the memory services, called directly
SpecSaves == Init /\ [][NextSaves]_vars

(* ======================= properties: Solution 1 ======================== *)

\* the response just sent answers a POST /query with this status
QueryAnswered(status) == resp.route = "query" /\ resp.status = status

\* the stored history of a thread, <<>> when it holds no conversation
StoredHistory(conv, threadId) ==
    IF threadId \in DOMAIN conv THEN conv[threadId].history ELSE <<>>

\* the last element of a non-empty sequence
Last(seq) == seq[Len(seq)]

\* C1 (state part): for every thread, getHistory without a limit returns
\* exactly the turns saved to the thread since it was last removed (by
\* clearHistory or cleanupOldConversations), in the order they were saved, each
\* with its query, fileAnswer, webAnswer, usage and timestamp.
C1_HistoryIsWhatWasSaved ==
    \A t \in ThreadIds : getHistory(conversations, t, Null) = saved[t]

\* C1 (step part): the step that answers a POST /query on thread T with 200
\* appends exactly one turn, the one of that query, to T and changes no other
\* thread's history.
C1_QueryAppendsOneTurn ==
    (resp = NoResponse /\ resp'.route = "query" /\ resp'.status = 200) =>
        \A t \in ThreadIds :
            getHistory(conversations', t, Null) =
                IF t = resp'.body.threadId
                THEN Append(getHistory(conversations, t, Null),
                            [query |-> SANITIZED_QUERY,
                             fileAnswer |-> resp'.body.file.output_text,
                             webAnswer |-> resp'.body.web.output_text,
                             timestamp |-> now,
                             usage |-> resp'.body.result.usage])
                ELSE getHistory(conversations, t, Null)

\* C1: after any sequence of saves, clears and clean-ups getHistory(T) returns
\* exactly the turns saved to T since T was last removed, in order and with
\* all their fields, and a successful POST /api/solution1/query on T appends
\* exactly one such turn to T.
C1_History == []C1_HistoryIsWhatWasSaved /\ [][C1_QueryAppendsOneTurn]_vars1

\* C1 witness: a query has just been answered 200 on a thread that already
\* held a turn
C1_Witness ==
    /\ QueryAnswered(200)
    /\ Len(saved[resp.body.threadId]) = 2

\* C2 (step part): the step that starts the remote calls of a POST /query on
\* thread T sends, with the file-search request, the response id stored with
\* the most recent turn of T, and no previous_response_id when T holds no
\* turn; the web-search request carries none.
C2_RequestCarriesLastId ==
    \A c \in Clients :
        (reqs[c].pc = "idle" /\ reqs'[c].pc = "query") =>
            /\ reqs'[c].fileRequest.previous_response_id =
                  IF StoredHistory(conversations, reqs'[c].threadId) = <<>>
                  THEN <<>>
                  ELSE <<Last(StoredHistory(conversations, reqs'[c].threadId)).responseId>>
            /\ reqs'[c].webRequest.previous_response_id = <<>>

\* C2 (state part): the response id stored with a turn is the id of the
\* file-search response of the query that saved it.
C2_StoredIdIsFileResponseId ==
    /\ \A t \in DOMAIN conversations :
          \A i \in 1..Len(conversations[t].history) :
              \E n \in 1..(nextId - 1) :
                  conversations[t].history[i].responseId = FileResponseId(n)
    /\ QueryAnswered(200) =>
          Last(conversations[resp.body.threadId].history).responseId = resp.body.file.id

C3_ClearRemovesThread ==
    /\ \A t \in ThreadIds :
          LET first == clearHistory(conversations, t)
              second == clearHistory(first.conversations, t)
          IN /\ first.returned = (StoredHistory(conversations, t) # <<>>)
             /\ getHistory(first.conversations, t, Null) = <<>>
             /\ ~getConversationSummary(first.conversations, t).exists
             /\ getPreviousResponseId(first.conversations, t) = NoResponseId
             /\ \A u \in ThreadIds \ {t} :
                   StoredHistory(first.conversations, u) = StoredHistory(conversations, u)
             /\ ~second.returned
             /\ second.conversations = first.conversations
    /\ (resp.route = "clear" /\ resp.status = 200) =>
          /\ resp.body.returned = resp.request.held
          /\ resp.request.threadId \notin DOMAIN conversations
          /\ getHistory(conversations, resp.request.threadId, Null) = <<>>
          /\ ~getConversationSummary(conversations, resp.request.threadId).exists
          /\ getPreviousResponseId(conversations, resp.request.threadId) = NoResponseId

\* C3 witness: DELETE /history/T has just removed the conversation of T while
\* another thread still holds one
C3_Witness ==
    /\ resp.route = "clear" /\ resp.status = 200
    /\ resp.body.returned
    /\ conversations # <<>>

\* C5: when a remote call made while serving POST /api/solution1/query fails
\* with HTTP status 429, the error response sent to the client has type
\* RATE_LIMIT_ERROR and the message 'Rate limit exceeded. Please try again
\* later.'.
C5_RateLimitReported ==
    (QueryAnswered(500) /\ resp.upstream = 429) =>
        /\ resp.body.error.type = "RATE_LIMIT_ERROR"
        /\ resp.body.error.message = "Rate limit exceeded. Please try again later."

\* the last min(n, Len(turns)) elements of turns, by position
LastTurns(turns, n) ==
    LET k == IF n < Len(turns) THEN n ELSE Len(turns)
    IN [i \in 1..k |-> turns[Len(turns) - k + i]]

\* what C7 says getHistory returns for a limit argument
ExpectedHistory(turns, limit) ==
    IF limit.kind = "number" /\ limit.n > 0 THEN LastTurns(turns, limit.n) ELSE turns

\* C7: getHistory(T, n) with a positive limit n returns the last
\* min(n, length) turns of T in the order they were saved; with a limit that
\* is absent, zero or negative (or not a number) it returns all turns of T; for
\* a thread with no conversation it returns the empty list.  Stated of the
\* method on every reachable memory, and of the GET route's answer.
C7_HistoryLimit ==
    /\ \A t \in ThreadIds, limit \in Limits :
          getHistory(conversations, t, limit) = ExpectedHistory(saved[t], limit)
    /\ \A limit \in Limits : getHistory(conversations, <<"x">>, limit) = <<>>
    /\ (resp.route = "history" /\ resp.status = 200) =>
          resp.body.history =
              ExpectedHistory(saved[resp.request.threadId],
                              CASE resp.request.limit = "" -> Null
                                [] resp.request.limit = "abc" -> NaN
                                [] resp.request.limit = "-1" -> Num(-1)
                                [] resp.request.limit = "0" -> Num(0)
                                [] resp.request.limit = "1" -> Num(1)
                                [] resp.request.limit = "2" -> Num(2))

\* C7 witness: GET /history/T?limit=1 has just answered with the last of the
\* two turns of T
C7_Witness ==
    /\ resp.route = "history" /\ resp.status = 200
    /\ resp.request.limit = "1"
    /\ Len(saved[resp.request.threadId]) = 2
    /\ resp.body.history = <<saved[resp.request.threadId][2]>>

\* the sum of one usage field over the turns of a thread
UsageSum(turns, field) == sumSeq([i \in 1..Len(turns) |-> turns[i].usage[field]])

\* C8: getConversationSummary(T) of a thread holding a conversation reports
\* exists = true, messageCount = the number of stored turns, input_tokens and
\* output_tokens = the sums of the stored turns' usage values, and
\* total_tokens = input_tokens + output_tokens; of a thread with no
\* conversation it reports exists = false.
C8_Summary ==
    \A t \in ThreadIds :
        LET summary == getConversationSummary(conversations, t)
        IN IF t \in DOMAIN conversations
           THEN /\ summary.exists
                /\ summary.messageCount = Len(saved[t])
                /\ summary.totalUsage.input_tokens = UsageSum(saved[t], "input_tokens")
                /\ summary.totalUsage.output_tokens = UsageSum(saved[t], "output_tokens")
                /\ summary.totalUsage.total_tokens =
                      summary.totalUsage.input_tokens + summary.totalUsage.output_tokens
           ELSE ~summary.exists

\* C8 witness: GET /history/T has just answered with the summary of a thread
\* of two turns
C8_Witness ==
    /\ resp.route = "history" /\ resp.status = 200
    /\ resp.body.summary.exists
    /\ resp.body.summary.messageCount = 2
    /\ resp.body.summary.totalUsage.total_tokens > 0

\* C9: a successful Solution 1 query reports input_tokens = file-search +
\* web-search input tokens, output_tokens likewise, total_tokens = input +
\* output, and an estimated cost of 15 * input + 60 * output (in 10^-8
\* dollars); exactly this usage record is stored with the turn.
C9_Usage ==
    QueryAnswered(200) =>
        LET usage == resp.body.result.usage
            file == resp.body.file.usage
            web == resp.body.web.usage
        IN /\ usage.input_tokens = file.input_tokens + web.input_tokens
           /\ usage.output_tokens = file.output_tokens + web.output_tokens
           /\ usage.total_tokens = usage.input_tokens + usage.output_tokens
           /\ usage.estimated_cost = 15 * usage.input_tokens + 60 * usage.output_tokens
           /\ Last(conversations[resp.body.threadId].history).usage = usage

\* C9 witness: a query has just been answered 200
C9_Witness ==
    /\ QueryAnswered(200)
    /\ resp.body.result.usage.input_tokens > resp.body.file.usage.input_tokens
    /\ resp.body.result.usage.estimated_cost > 0

\* C10: when VECTOR_STORE_ID is not configured, GET /api/solution1/config and
\* POST /api/solution1/query with otherwise valid input both answer 500 with
\* the message that VECTOR_STORE_ID is not configured, no remote call is
\* issued (none is ever in flight, none is ever answered) and the
\* conversation memory stays as it was (empty).
C10_NotConfigured ==
    vectorStoreId = <<>> =>
        /\ \A c \in Clients : reqs[c].pc = "idle"
        /\ nextId = 1 /\ nextWebId = 1
        /\ conversations = <<>>
        /\ resp.route = "config" =>
              /\ resp.status = 500
              /\ resp.body.error.message = VECTOR_STORE_NOT_CONFIGURED
        /\ (/\ resp.route = "query"
            /\ resp.request.query = VALID_QUERY
            /\ resp.request.threadId \in {<<>>, T1}) =>
              /\ resp.status = 500
              /\ resp.body.error.message = VECTOR_STORE_NOT_CONFIGURED

\* C10 witness: without a vector store id, a valid query has just been answered
C10_Witness ==
    /\ vectorStoreId = <<>>
    /\ resp.route = "query"
    /\ resp.request.query = VALID_QUERY
    /\ resp.request.threadId = T1
    /\ resp.status = 500

(* ====================== properties: memory services ==================== *)

\* C4 as the specification states it: no save of any memory service drops an
\* earlier turn, so every thread of Solution 1's memory, of Solution 2's
\* memory and of the agent's memory holds exactly the turns saved to it since
\* it was last removed.
C4_Unbounded ==
    \A t \in ThreadIds :
        /\ Len(StoredHistory(conversations, t)) = Len(saved[t])
        /\ Len(StoredHistory(conversations2, t)) = Len(saved2[t])
        /\ Len(getConversationHistory(agentConversations, t)) = Len(agentSaved[t])

\* C4, corrected: saveResponse of Solution 1 and of Solution 2 never drops or
\* overwrites an earlier turn: after n saves to a thread with no clear in
\* between the thread holds exactly those n turns, in order.  saveConversation
\* of the agent's memory keeps the last 20 messages only: after n saves the
\* thread holds the min(n, 20) most recent ones, in order.
C4_SavesKeepTurns ==
    \A t \in ThreadIds :
        /\ getHistory(conversations, t, Null) = saved[t]
        /\ getHistory2(conversations2, t, Null) = saved2[t]
        /\ getConversationHistory(agentConversations, t)
              = LastTurns(agentSaved[t], HistoryLimit)

\* C4 witness: a thread of the agent's memory has been saved to more than 20
\* times and holds 20 messages, while threads of the two other memories hold
\* all the turns saved to them
C4_Witness ==
    \E t \in ThreadIds :
        /\ Len(agentSaved[t]) > HistoryLimit
        /\ Len(getConversationHistory(agentConversations, t)) = HistoryLimit
        /\ Len(StoredHistory(conversations, t)) = MaxDirectSaves
        /\ Len(StoredHistory(conversations2, t)) = MaxDirectSaves

(* ======================= properties: Solution 2 ======================== *)

\* C6: Solution 2 keeps conversation history: once POST /api/solution2/query
\* with thread id T has been answered 200, the history of T (what GET
\* /api/solution2/history/T returns) ends with that question and its answer,
\* and the summary's messageCount is one more than before the request.
C6_HistoryKept ==
    (resp.route = "query2" /\ resp.status = 200) =>
        LET history == getHistory2(conversations2, resp.body.threadId, Null)
            summary == getConversationSummary2(conversations2, resp.body.threadId)
        IN /\ history # <<>>
           /\ Last(history).query = resp.body.query
           /\ Last(history).fileAnswer = resp.body.data.fileSearchWithLLM.answer
           /\ summary.exists
           /\ summary.messageCount =
                 (IF resp.request.before.exists THEN resp.request.before.messageCount ELSE 0) + 1

(* ================== properties: Solution 1, continued ================== *)

\* C11 as the specification states it: the query text stored with a turn is
\* the raw query text of the request body.
C11_RawQueryStored ==
    QueryAnswered(200) =>
        Last(conversations[resp.body.threadId].history).query = resp.request.query.text

\* C11, corrected: the query text stored with a turn, and returned by the
\* history endpoint, is the submitted text trimmed and with every run of
\* whitespace replaced by one space (it is the raw text only when that changes
\* nothing); the same text is what the remote requests carry as input.
C11_SanitizedQueryStored ==
    /\ QueryAnswered(200) =>
          Last(conversations[resp.body.threadId].history).query
              = collapseSpaces(trim(resp.request.query.text))
    /\ \A c \in Clients :
          reqs[c].pc = "query" =>
              /\ reqs[c].fileRequest.input = collapseSpaces(trim(reqs[c].request.query.text))
              /\ reqs[c].webRequest.input = collapseSpaces(trim(reqs[c].request.query.text))
    /\ (resp.route = "history" /\ resp.status = 200) =>
          \A i \in 1..Len(resp.body.history) :
              \E body \in QueryBodies :
                  /\ body.isString
                  /\ resp.body.history[i].query = collapseSpaces(trim(body.text))

\* C11 witness: the history endpoint has just returned a turn whose query
\* text differs from the raw text submitted
C11_Witness ==
    /\ resp.route = "history" /\ resp.status = 200
    /\ Len(resp.body.history) > 0
    /\ resp.body.history[1].query = SANITIZED_QUERY
    /\ resp.body.history[1].query # VALID_QUERY.text

\* the number of stored turns, and the sum of one usage field, over all threads
AllTurns == sumSeq([i \in 1..Len(valuesOf(conversations)) |->
                       Len(valuesOf(conversations)[i].history)])
AllUsage(field) ==
    LET turns(t) == StoredHistory(conversations, t)
    IN UsageSum(turns(DEFAULT_THREAD), field) + UsageSum(turns(T1), field)

\* C12: GET /api/solution1/statistics returns a statistics object with the
\* fields totalThreads, totalQueries, totalTokens and estimatedTotalCost:
\* totalThreads is the number of threads holding a conversation, totalQueries
\* the number of stored turns over all threads, totalTokens the sum of their
\* token usage.
C12_StatisticsFields ==
    resp.route = "statistics" =>
        /\ {"totalThreads", "totalQueries", "totalTokens", "estimatedTotalCost"}
              \subseteq DOMAIN resp.body.statistics
        /\ resp.body.statistics.totalThreads = Cardinality(DOMAIN conversations)
        /\ resp.body.statistics.totalQueries = AllTurns
        /\ resp.body.statistics.totalTokens =
              AllUsage("input_tokens") + AllUsage("output_tokens")

\* what the statistics object does hold: the same values under the names
\* activeThreads, totalMessages and totalUsage.total_tokens
StatisticsUnderCodeNames ==
    resp.route = "statistics" =>
        /\ DOMAIN resp.body.statistics = {"activeThreads", "totalMessages", "totalUsage"}
        /\ resp.body.statistics.activeThreads = Cardinality(DOMAIN conversations)
        /\ resp.body.statistics.totalMessages = Len(saved[DEFAULT_THREAD]) + Len(saved[T1])
        /\ resp.body.statistics.totalUsage.total_tokens =
              AllUsage("input_tokens") + AllUsage("output_tokens")
        /\ resp.body.statistics.totalUsage.estimated_cost = AllUsage("estimated_cost")

(* ================== properties: Solution 2, continued ================== *)

\* C13 (state part): while a query of Solution 2 waits for a search result,
\* and whenever it holds one, both searches have been started; while it waits
\* for the answer, both searches have completed.
C13_SearchesInParallel ==
    \A c \in Clients :
        /\ reqs2[c].pc = "searching" =>
              reqs2[c].fileSearchStarted /\ reqs2[c].webSearchStarted
        /\ reqs2[c].pc \in {"checking", "connecting"} =>
              /\ ~reqs2[c].fileSearchStarted /\ ~reqs2[c].webSearchStarted
              /\ reqs2[c].fileSearchResults = <<>> /\ reqs2[c].webSearchResults = <<>>
        /\ reqs2[c].pc = "generating" =>
              reqs2[c].fileSearchResults # <<>> /\ reqs2[c].webSearchResults # <<>>

\* C13 (step part): answer generation starts only in the step in which the
\* second of the two searches completes, with the results both returned; and
\* a query is answered 200 only by the step in which its answer generation
\* completes, the context handed to the LLM being the documents the file
\* search returned, joined.
C13_GenerationAfterBoth ==
    /\ \A c \in Clients :
          (reqs2[c].pc # "generating" /\ reqs2'[c].pc = "generating") =>
              /\ reqs2[c].pc = "searching"
              /\ reqs2[c].fileSearchResults = <<>> \/ reqs2[c].webSearchResults = <<>>
              /\ reqs2[c].fileSearchResults # <<>> =>
                    reqs2'[c].fileSearchResults = reqs2[c].fileSearchResults
              /\ reqs2[c].webSearchResults # <<>> =>
                    reqs2'[c].webSearchResults = reqs2[c].webSearchResults
    /\ (resp = NoResponse /\ resp'.route = "query2" /\ resp'.status = 200) =>
          \E c \in Clients :
              /\ reqs2[c].pc = "generating" /\ reqs2'[c].pc = "idle"
              /\ resp'.body.context =
                    join([i \in 1..Len(reqs2[c].fileSearchResults[1].documents) |->
                             reqs2[c].fileSearchResults[1].documents[i].content])
              /\ resp'.body.data.fileSearchWithLLM.totalDocuments =
                    Len(reqs2[c].fileSearchResults[1].documents)

\* C13: in a Solution 2 query the file search and the web search are both
\* started before either result is awaited, answer generation starts only
\* after both have completed and uses the documents the file search returned,
\* and the response is produced only after answer generation has completed.
C13_Pipeline == []C13_SearchesInParallel /\ [][C13_GenerationAfterBoth]_vars

\* C13 witness: a query has just been answered 200 from two retrieved documents
C13_Witness ==
    /\ resp.route = "query2" /\ resp.status = 200
    /\ resp.body.data.fileSearchWithLLM.totalDocuments = 2
    /\ resp.body.context = <<"f", "k", "1", "\n", "\n", "f", "k", "2", "x">>

\* C14: the memory service cleans up old conversations automatically: a
\* conversation that has not been updated for longer than the maximum age (24
\* hours by default) is eventually removed from the cache while the server
\* keeps running, without any client request to clear it.
C14_AutomaticCleanup ==
    \A t \in ThreadIds :
        (/\ t \in DOMAIN conversations
         /\ now - conversations[t].lastUpdated > DefaultMaxAgeHours * MsPerHour)
            ~> (t \notin DOMAIN conversations)

\* C15: RAG service initialisation runs at most once per server process:
\* for any interleaving of concurrent POST /api/solution2/query and POST
\* /api/solution2/initialize requests, the LLM client, the web-search tool and
\* the vector-store connection are each created at most once.  (llm,
\* tavilySearch and vectorStore count the instances created so far.)
C15_InitializedOnce ==
    /\ ragService.llm <= 1
    /\ ragService.tavilySearch <= 1
    /\ pdfService.vectorStore <= 1

\* the same of the vector-store connection alone
VectorStoreConnectedOnce == pdfService.vectorStore <= 1

(* ================== properties: Solution 1, failures =================== *)

\* C16 (step part): a POST /api/solution1/query whose remote calls are in
\* flight ends either with 200 or, when the file search or the web search
\* fails, with 500; the step that answers 500 adds no turn to any thread and
\* leaves the previous response id of every thread, which the next query on
\* the thread sends, as it was.
C16_FailureKeepsMemory ==
    /\ \A c \in Clients :
          (reqs[c].pc = "query" /\ reqs'[c].pc = "idle") =>
              /\ resp'.route = "query"
              /\ resp'.status \in {200, 500}
              /\ resp'.request = reqs[c].request
    /\ (resp = NoResponse /\ resp'.route = "query" /\ resp'.status = 500) =>
          /\ conversations' = conversations
          /\ \A t \in ThreadIds :
                /\ getHistory(conversations', t, Null) = getHistory(conversations, t, Null)
                /\ getPreviousResponseId(conversations', t)
                      = getPreviousResponseId(conversations, t)

\* C16 (state part): right after a 500 answer the stored turns are the turns
\* saved by successful queries, and a query started next on a thread carries
\* the id stored with the thread's last successful turn.
C16_FailureLeavesTurns ==
    QueryAnswered(500) =>
        \A t \in ThreadIds :
            /\ getHistory(conversations, t, Null) = saved[t]
            /\ fileSearchRequest(SANITIZED_QUERY, vectorStoreId,
                                 getPreviousResponseId(conversations, t)).previous_response_id
                  = IF saved[t] = <<>> THEN <<>>
                    ELSE <<Last(conversations[t].history).responseId>>

\* C16: a failed Solution 1 query leaves the memory untouched: if the file
\* search or the web search fails the request ends with status 500, no turn
\* is added to any thread, and the next query on the same thread sends the
\* same previous_response_id as it would have sent before the failed request.
C16_FailedQuery == []C16_FailureLeavesTurns /\ [][C16_FailureKeepsMemory]_vars

\* C16 witness: a remote call has just failed with 429 for a query on a
\* thread that holds a turn, and the request was answered 500
C16_Witness ==
    /\ QueryAnswered(500)
    /\ resp.upstream = 429
    /\ orDefault(resp.request.threadId) \in DOMAIN conversations
    /\ Len(conversations[orDefault(resp.request.threadId)].history) = 1

\* the query and threadId of a request body that C17 says are refused
RefusedQuery(query) ==
    \/ ~query.isString
    \/ Len(trim(query.text)) = 0
    \/ Len(trim(query.text)) > MaxQueryLength
RefusedThreadId(threadId) == \E i \in 1..Len(threadId) : ~IsIdChar(threadId[i])

\* C17: POST /api/solution1/query answers 400 and issues no remote call
\* (the request never comes to wait for one) whenever the query is not a
\* string, is empty or whitespace-only, or is longer than 1000 characters
\* after trimming, or the supplied threadId contains a character other than
\* letters, digits, hyphen and underscore; a request without threadId is
\* processed under the thread 'default'.
C17_Validation ==
    /\ (/\ resp.route = "query"
        /\ RefusedQuery(resp.request.query) \/ RefusedThreadId(resp.request.threadId))
          => resp.status = 400
    /\ \A c \in Clients :
          reqs[c].pc = "query" =>
              /\ ~RefusedQuery(reqs[c].request.query)
              /\ ~RefusedThreadId(reqs[c].request.threadId)
              /\ reqs[c].request.threadId = <<>> => reqs[c].threadId = DEFAULT_THREAD

\* what does hold: the same with the threadId judged after trimming, while
\* the thread the turn is stored under is the untrimmed threadId
ValidationAfterTrimming ==
    /\ (/\ resp.route = "query"
        /\ \/ RefusedQuery(resp.request.query)
           \/ RefusedThreadId(trim(orDefault(resp.request.threadId))))
          => resp.status = 400
    /\ \A c \in Clients :
          reqs[c].pc = "query" =>
              /\ ~RefusedQuery(reqs[c].request.query)
              /\ ~RefusedThreadId(trim(reqs[c].request.threadId))
              /\ reqs[c].threadId = orDefault(reqs[c].request.threadId)

(* ========================= properties: the agent ======================= *)

\* C18: the searchResults returned by an agent query contain only results
\* captured by tool calls made during that same query: a query never returns
\* file-search or web-search results that the tool calls of another query
\* stored.
C18_OwnSearchResults ==
    (resp.route = "agentQuery" /\ resp.resolved) =>
        /\ \A i \in 1..Len(resp.body.searchResults.fileSearch) :
              resp.body.searchResults.fileSearch[i].call = resp.request.call
        /\ \A i \in 1..Len(resp.body.searchResults.webSearch) :
              resp.body.searchResults.webSearch[i].call = resp.request.call

\* the same for a query that runs while no other query is in flight, after
\* an earlier query has failed
OwnSearchResultsAfterFailure ==
    (/\ resp.route = "agentQuery" /\ resp.resolved
     /\ \A c \in Clients : agentReqs[c].pc = "idle"
     /\ resp.request.call = 2
     /\ ~resp.request.pdfToolCalled) =>
        resp.body.searchResults.fileSearch = <<>>

(* ================ properties: the Gemini-first RAG service ============= *)

\* C19: the reported model matches the model that produced the answer: a
\* result labelled gemini-2.0-flash-exp, free, no fallback was produced by the
\* Gemini LLM, a result labelled paid, fallback was produced by the OpenAI LLM,
\* and the free / paid usage counter counts the answers of the model that was
\* actually invoked.
C19_ReportedModelProducedAnswer ==
    /\ (resp.route = "geminiQuery" /\ resp.resolved) =>
          /\ resp.body.fileSearchWithLLM.model = resp.body.producedBy
          /\ (/\ resp.body.fileSearchWithLLM.cost = "free"
              /\ ~resp.body.fileSearchWithLLM.fallback) => resp.body.producedBy = GEMINI_MODEL
          /\ (/\ resp.body.fileSearchWithLLM.cost = "paid"
              /\ resp.body.fileSearchWithLLM.fallback) => resp.body.producedBy = CHEAPEST
    /\ getUsageStats(geminiService).free.count = geminiAnswered.free
    /\ getUsageStats(geminiService).paid.count = geminiAnswered.paid

\* what holds instead: the label tells which invocation of the chain answered,
\* the first (free) or the second (paid, fallback), and the counters count these
LabelTellsInvocation ==
    /\ (resp.route = "geminiQuery" /\ resp.resolved) =>
          /\ resp.body.fileSearchWithLLM.fallback = resp.request.fellBack
          /\ resp.body.fileSearchWithLLM.cost = (IF resp.request.fellBack THEN "paid" ELSE "free")
          /\ resp.body.fileSearchWithLLM.model =
                (IF resp.request.fellBack THEN CHEAPEST ELSE GEMINI_MODEL)
    /\ geminiService.usageCounts.free + geminiService.usageCounts.paid =
          geminiAnswered.free + geminiAnswered.paid

(* ================== properties: waitForFileProcessing ================== *)

\* C20: waitForFileProcessing fails as soon as a status poll reports the file
\* as 'failed': it throws 'File processing failed: ...' on that attempt and
\* makes no further status poll.
C20_FailsOnFailedPoll ==
    \A k \in 1..Len(fileWait.polls) :
        (~fileWait.polls[k].threw /\ fileWait.polls[k].status = "failed") =>
            /\ k = Len(fileWait.polls)
            /\ fileWait.pc = "threw"
            /\ fileWait.error = ProcessingFailed(fileWait.polls[k])

\* what holds instead: a 'failed' poll ends the wait on the last attempt only
FailsOnLastAttemptOnly ==
    \A k \in 1..Len(fileWait.polls) :
        (~fileWait.polls[k].threw /\ fileWait.polls[k].status = "failed") =>
            IF k = fileWait.maxAttempts
            THEN fileWait.pc = "threw" /\ fileWait.error = ProcessingFailed(fileWait.polls[k])
            ELSE k < Len(fileWait.polls) \/ fileWait.pc = "polling"

\* the wait has ended, by returning or by throwing
WaitEnded == fileWait.pc \in {"returned", "threw"}

\* the polls made so far, and whether the last one returned an unfinished status
LastPoll == fileWait.polls[Len(fileWait.polls)]
LastPollUnfinished ==
    /\ fileWait.polls # <<>>
    /\ ~LastPoll.threw
    /\ LastPoll.status \notin {"completed", "failed"}

C21_AtMostMaxAttemptsPolls ==
    /\ Len(fileWait.polls) <= fileWait.maxAttempts
    /\ fileWait.pc = "returned" =>
          /\ fileWait.polls # <<>>
          /\ ~LastPoll.threw /\ LastPoll.status = "completed"
    /\ \A k \in 1..Len(fileWait.polls) :
          (~fileWait.polls[k].threw /\ fileWait.polls[k].status = "completed") =>
              (k = Len(fileWait.polls) /\ fileWait.pc = "returned")
    /\ (fileWait.pc = "threw" /\ LastPollUnfinished) =>
          (fileWait.error = ProcessingTimeout /\ Len(fileWait.polls) = fileWait.maxAttempts)

\* C21: waitForFileProcessing always terminates after at most maxAttempts
\* status polls: it returns normally only right after a poll that reported
\* 'completed', and if no poll within the limit reports 'completed' it ends by
\* throwing, with 'File processing timeout' when the last poll returned an
\* unfinished status.
C21_Terminates ==
    /\ []C21_AtMostMaxAttemptsPolls
    /\ (fileWait.pc # "idle") ~> WaitEnded

\* C21 witness: every one of three attempts polled an unfinished status, and
\* the wait has thrown the timeout
C21_Witness ==
    /\ fileWait.pc = "threw" /\ fileWait.error = ProcessingTimeout
    /\ fileWait.maxAttempts = 3 /\ Len(fileWait.polls) = 3
    /\ \A k \in 1..3 : fileWait.polls[k].status = "in_progress"

(* ================ properties: Solution 2's web search ================== *)

\* a query answered 200 whose web search threw reports no web result
C22_NoWebResultReported ==
    (resp.route = "query2" /\ resp.status = 200 /\ resp.body.tavilyThrew) =>
        /\ resp.body.data.webSearch.topResult = NoWebResult
        /\ resp.body.data.webSearch.totalResults = 0

\* once the file search of a query has succeeded, the step that ends its web
\* search, thrown or not, starts the answer generation and sends no failure
C22_WebSearchNeverFails ==
    \A c \in Clients :
        (/\ reqs2[c].pc = "searching"
         /\ reqs2[c].fileSearchResults # <<>>
         /\ reqs2'[c] # reqs2[c]) =>
            (reqs2'[c].pc = "generating" /\ resp' = NoResponse)

\* C22: a web-search failure never fails a Solution 2 query: when the
\* web-search call throws, RAGService.query still succeeds (provided file
\* search and answer generation succeed) and reports webSearch.topResult = null
\* and webSearch.totalResults = 0.
C22_WebFailureTolerated ==
    []C22_NoWebResultReported /\ [][C22_WebSearchNeverFails]_vars

\* C22 witness: a query whose web search threw has been answered 200, from
\* two retrieved documents
C22_Witness ==
    /\ resp.route = "query2" /\ resp.status = 200 /\ resp.body.tavilyThrew
    /\ resp.body.data.fileSearchWithLLM.totalDocuments = 2

(* ==================== properties: the error handlers =================== *)

\* C23: Solution 2's ErrorHandler.handle answers every error that carries
\* HTTP status 429 with the rate-limit strategy of handleAPIError: retry = true
\* together with a backoff delay, whatever the text of the error's message.
C23_RateLimitStrategy ==
    (resp.route = "handle2" /\ resp.request.status = 429) =>
        /\ resp.body.retry
        /\ "delay" \in DOMAIN resp.body
        /\ resp.body.message = "API rate limit exceeded, please retry later"

\* what holds instead: a 429 gets the rate-limit strategy when its message
\* holds none of the words quota, limit, file, PDF, validation, invalid
RateLimitStrategyByMessage ==
    (/\ resp.route = "handle2" /\ resp.request.status = 429
     /\ resp.request.message \in {<<>>, <<"T", "o", "o", " ", "M", "a", "n", "y", " ",
                                    "R", "e", "q", "u", "e", "s", "t", "s">>,
                                  <<"R", "a", "t", "e", " ", "L", "i", "m", "i", "t">>}) =>
        resp.body = [message |-> "API rate limit exceeded, please retry later",
                     retry |-> TRUE, delay |-> 2000]

\* the delay C27 states for a retry count n and a cap
ExpectedBackoff(n, cap) == IF 1000 * (2 ^ n) < cap THEN 1000 * (2 ^ n) ELSE cap

\* C27: calculateBackoff returns 1000 * 2^n milliseconds capped at the maximum
\* delay (60000 ms in Solution 1, 30000 ms in Solution 2) for every retry
\* count n >= 0: the delay is at least 1000 ms, never decreases as n grows and
\* never exceeds the cap.
C27_Backoff ==
    /\ resp.route = "calculateBackoff" =>
          /\ resp.body = ExpectedBackoff(resp.request, 60000)
          /\ resp.body >= 1000 /\ resp.body <= 60000
          /\ resp.request > 0 => resp.body >= ExpectedBackoff(resp.request - 1, 60000)
    /\ (resp.route = "calculateBackoff2" /\ resp.request # <<>>) =>
          /\ resp.body = ExpectedBackoff(resp.request[1], 30000)
          /\ resp.body >= 1000 /\ resp.body <= 30000
          /\ resp.request[1] > 0 => resp.body >= ExpectedBackoff(resp.request[1] - 1, 30000)
    /\ (resp.route = "handleAPIError" /\ resp.request.error.status = 429) =>
          resp.body.delay = ExpectedBackoff(IF resp.request.retryCount = <<>> THEN 0
                                            ELSE resp.request.retryCount[1], 60000)

\* C27 witness: calculateBackoff has returned the cap for a retry count whose
\* uncapped delay is larger
C27_Witness ==
    /\ resp.route = "calculateBackoff"
    /\ resp.request = 6 /\ resp.body = 60000

(* ============== properties: Solution 1's memory, continued ============= *)

\* the threads of the call's conversations that were last updated more than
\* maxAgeHours before the call
OlderThanMaxAge ==
    {t \in DOMAIN resp.before :
        resp.at - resp.before[t].lastUpdated > resp.maxAgeHours * MsPerHour}

\* C24: cleanupOldConversations(maxAgeHours) removes exactly the conversations
\* whose lastUpdated lies more than maxAgeHours before the current time,
\* returns the number of conversations it removed, and leaves every other
\* conversation unchanged.
C24_CleanupRemovesOld ==
    resp.route = "cleanupOldConversations" =>
        /\ DOMAIN conversations = DOMAIN resp.before \ OlderThanMaxAge
        /\ resp.returned = Cardinality(OlderThanMaxAge)
        /\ \A t \in DOMAIN conversations : conversations[t] = resp.before[t]

\* C24 witness: a cleanup with maxAgeHours 0 has removed one conversation and
\* kept another, updated at the very time of the call
C24_Witness ==
    /\ resp.route = "cleanupOldConversations"
    /\ resp.maxAgeHours = 0 /\ resp.returned = 1
    /\ \E t \in DOMAIN conversations : conversations[t].lastUpdated = resp.at

\* the conversation stored for a thread, with its turns, createdAt and
\* lastUpdated; <<>> when there is none
StoredConversation(conv, threadId) ==
    IF threadId \in DOMAIN conv THEN <<conv[threadId]>> ELSE <<>>

\* every thread but T holds after the step what it held before
OtherThreadsKept(T) ==
    \A t \in (DOMAIN conversations \cup DOMAIN conversations') \ {T} :
        StoredConversation(conversations', t) = StoredConversation(conversations, t)

\* the step that saves the turn of a query on T (saveResponse), and the step
\* of DELETE /history/T (clearHistory), leave every other thread as it was;
\* the steps of GET /history/T (getHistory, getConversationSummary), of GET
\* /statistics (getStatistics) and the start of a query (getPreviousResponseId)
\* leave the memory as it was
C25_StepKeepsOtherThreads ==
    /\ (resp = NoResponse /\ resp'.route = "query" /\ resp'.status = 200) =>
          /\ OtherThreadsKept(resp'.body.threadId)
          /\ conversations' # conversations
    /\ (resp = NoResponse /\ resp'.route = "clear") =>
          OtherThreadsKept(resp'.request.threadId)
    /\ (resp = NoResponse /\ resp'.route \in {"history", "statistics"}) =>
          conversations' = conversations
    /\ \A c \in Clients :
          (reqs[c].pc = "idle" /\ reqs'[c].pc = "query") => conversations' = conversations

\* C25: threads are isolated: saveResponse and clearHistory on a thread T
\* leave the stored turns, createdAt and lastUpdated of every other thread
\* unchanged, and getHistory, getConversationSummary, getPreviousResponseId and
\* getStatistics change no stored state at all.
C25_ThreadsIsolated == [][C25_StepKeepsOtherThreads]_vars

\* C25 witness: a query has just been answered 200 on one thread while
\* another thread holds a conversation that was updated earlier
C25_Witness ==
    /\ QueryAnswered(200)
    /\ \E t \in DOMAIN conversations :
          t # resp.body.threadId /\ conversations[t].lastUpdated < now

(* ====================== properties: the front end ====================== *)

\* C26: after loading the Solution 1 configuration has failed, the 'Query
\* Solution 1' and 'Query Both' buttons stay disabled for the rest of the page
\* session, whatever queries are submitted afterwards.
C26_ButtonsStayDisabled ==
    page.config = "failed" =>
        (page.submitBtn1.disabled /\ page.submitBtnBoth.disabled)

\* what holds instead: after the failure no query is sent to Solution 1, and
\* the two buttons are disabled until the first query has ended
NoSolution1QueryAfterFailure ==
    page.config = "failed" =>
        /\ "solution1" \notin page.pending
        /\ page.answer1 = "hidden"
        /\ (page.answer2 = "hidden" \/ page.isQuerying) =>
              (page.submitBtn1.disabled /\ page.submitBtnBoth.disabled)

====
